---- MODULE Spec2Model ----
\* Ingredient inventory backend: scan reconciliation (app/api/ingredients.py),
\* the manual inventory endpoints, mark-cooked depletion (app/api/recipes.py)
\* and the document store they share (app/services/firebase/firestore.py).
\*
\* Conventions of the model
\*   - a Python str is a sequence of one-character strings, so that lower(),
\*     substring tests and the regular expressions are computed, not assumed;
\*   - a float quantity is an integer number of tenths (1.0 is 10, 2.5 is 25);
\*     the quantity texts of the model carry at most one fractional digit;
\*   - a point in time is an integer number of hours; a datetime is a record
\*     [t, aware]: aware = TRUE for a timezone-aware value (a stored timestamp
\*     read back with tzinfo, or an ISO string ending in Z / an offset),
\*     FALSE for a naive one (datetime.now(), datetime.utcnow());
\*   - the collection order of the store is the order of the document ids, and a
\*     new uuid4 may fall anywhere in that order.
EXTENDS Integers, Sequences, FiniteSets, TLC

-----------------------------------------------------------------------------
\* Python string primitives

LowerMap ==
  [A |-> "a", B |-> "b", C |-> "c", D |-> "d", E |-> "e", F |-> "f", G |-> "g",
   H |-> "h", I |-> "i", J |-> "j", K |-> "k", L |-> "l", M |-> "m", N |-> "n",
   O |-> "o", P |-> "p", Q |-> "q", R |-> "r", S |-> "s", T |-> "t", U |-> "u",
   V |-> "v", W |-> "w", X |-> "x", Y |-> "y", Z |-> "z"]

\* str.lower()
Lower(s) ==
  [i \in 1..Len(s) |-> IF s[i] \in DOMAIN LowerMap THEN LowerMap[s[i]] ELSE s[i]]

\* `sub in s`
Contains(s, sub) ==
  \E i \in 0..(Len(s) - Len(sub)) : \A j \in 1..Len(sub) : s[i + j] = sub[j]

\* any(item in s for item in items)
AnyIn(items, s) == \E k \in 1..Len(items) : Contains(s, items[k])

DigitVal ==
  [c \in {"0","1","2","3","4","5","6","7","8","9"} |->
     CASE c = "0" -> 0 [] c = "1" -> 1 [] c = "2" -> 2 [] c = "3" -> 3
       [] c = "4" -> 4 [] c = "5" -> 5 [] c = "6" -> 6 [] c = "7" -> 7
       [] c = "8" -> 8 [] c = "9" -> 9]

IsDigit(c) == c \in DOMAIN DigitVal

\* index of the first digit of s, 0 when s has none
FirstDigit(s) ==
  IF \E i \in 1..Len(s) : IsDigit(s[i])
    THEN CHOOSE i \in 1..Len(s) : IsDigit(s[i]) /\ \A j \in 1..(i - 1) : ~IsDigit(s[j])
    ELSE 0

\* last index of the maximal run of digits of s that starts at i (i - 1 when empty)
DigitsEnd(s, i) ==
  CHOOSE e \in (i - 1)..Len(s) :
    /\ \A j \in i..e : IsDigit(s[j])
    /\ (e = Len(s) \/ ~IsDigit(s[e + 1]))

RECURSIVE IntOf(_, _, _)
\* int(s[i..e]) for a run of digits
IntOf(s, i, e) == IF e < i THEN 0 ELSE 10 * IntOf(s, i, e - 1) + DigitVal[s[e]]

-----------------------------------------------------------------------------
\* Parsers of the recognizer's free text

\* re.findall(r'\d+', s), cut after its first element (the only one the code reads)
FindIntegers(s) ==
  LET i == FirstDigit(s) IN IF i = 0 THEN <<>> ELSE <<IntOf(s, i, DigitsEnd(s, i))>>

\* faulty variant: week is looked for before day
_parse_expiration_days_week_first(expiration_str) ==
  LET expiration_lower == Lower(expiration_str)
      numbers == FindIntegers(expiration_str)
  IN  IF Contains(expiration_lower, <<"w","e","e","k">>)
        THEN IF numbers # <<>> THEN numbers[1] * 7 ELSE 7
      ELSE IF Contains(expiration_lower, <<"d","a","y">>)
        THEN IF numbers # <<>> THEN numbers[1] ELSE 7
      ELSE IF Contains(expiration_lower, <<"m","o","n","t","h">>)
        THEN IF numbers # <<>> THEN numbers[1] * 30 ELSE 30
      ELSE 7

_parse_expiration_days(expiration_str) ==
  LET expiration_lower == Lower(expiration_str)
      numbers == FindIntegers(expiration_str)
  IN  IF Contains(expiration_lower, <<"d","a","y">>)
        THEN IF numbers # <<>> THEN numbers[1] ELSE 7
      ELSE IF Contains(expiration_lower, <<"w","e","e","k">>)
        THEN IF numbers # <<>> THEN numbers[1] * 7 ELSE 7
      ELSE IF Contains(expiration_lower, <<"m","o","n","t","h">>)
        THEN IF numbers # <<>> THEN numbers[1] * 30 ELSE 30
      ELSE 7

\* faulty variant: the pattern is \d+, the decimals are lost
_parse_quantity_value_integer_only(quantity_str) ==
  LET numbers == FindIntegers(quantity_str)
  IN  IF numbers # <<>> THEN 10 * numbers[1] ELSE 10

\* float(re.findall(r'\d+\.?\d*', s)[0]) in tenths, 1.0 when the list is empty
_parse_quantity_value(quantity_str) ==
  LET i == FirstDigit(quantity_str)
  IN  IF i = 0 THEN 10
      ELSE LET e == DigitsEnd(quantity_str, i)
               dot == e < Len(quantity_str) /\ quantity_str[e + 1] = "."
               f == IF dot THEN DigitsEnd(quantity_str, e + 2) ELSE e
           IN  10 * IntOf(quantity_str, i, e)
                 + (IF dot /\ f >= e + 2 THEN DigitVal[quantity_str[e + 2]] ELSE 0)

_parse_unit_value(quantity_str) ==
  LET q == Lower(quantity_str)
  IN  IF Contains(q, <<"p","i","e","c","e">>) \/ Contains(q, <<"i","t","e","m">>)
        THEN <<"p","i","e","c","e","s">>
      ELSE IF Contains(q, <<"b","o","t","t","l","e">>)
        THEN <<"b","o","t","t","l","e","s">>
      ELSE IF Contains(q, <<"c","o","n","t","a","i","n","e","r">>) \/ Contains(q, <<"b","o","x">>)
        THEN <<"c","o","n","t","a","i","n","e","r","s">>
      ELSE IF Contains(q, <<"c","u","p">>)
        THEN <<"c","u","p","s">>
      ELSE IF Contains(q, <<"l","b">>) \/ Contains(q, <<"p","o","u","n","d">>)
        THEN <<"l","b","s">>
      ELSE IF Contains(q, <<"k","g">>)
        THEN <<"k","g">>
      ELSE IF Contains(q, <<"c","a","r","t","o","n">>)
        THEN <<"c","a","r","t","o","n","s">>
      ELSE IF Contains(q, <<"l","o","a","f">>) \/ Contains(q, <<"l","o","a","v","e","s">>)
        THEN <<"l","o","a","v","e","s">>
      ELSE IF Contains(q, <<"b","l","o","c","k">>)
        THEN <<"b","l","o","c","k","s">>
      ELSE <<"p","i","e","c","e","s">>

-----------------------------------------------------------------------------
\* Category classifier

produce_items ==
  <<
    <<"a","p","p","l","e">>, <<"a","p","p","l","e","s">>, <<"b","a","n","a","n","a">>,
    <<"b","a","n","a","n","a","s">>, <<"o","r","a","n","g","e">>, <<"o","r","a","n","g","e","s">>,
    <<"b","e","r","r","y">>, <<"b","e","r","r","i","e","s">>,
    <<"s","t","r","a","w","b","e","r","r","y">>,
    <<"s","t","r","a","w","b","e","r","r","i","e","s">>, <<"b","l","u","e","b","e","r","r","y">>,
    <<"b","l","u","e","b","e","r","r","i","e","s">>, <<"r","a","s","p","b","e","r","r","y">>,
    <<"r","a","s","p","b","e","r","r","i","e","s">>, <<"g","r","a","p","e">>,
    <<"g","r","a","p","e","s">>, <<"l","e","m","o","n">>, <<"l","e","m","o","n","s">>,
    <<"l","i","m","e">>, <<"l","i","m","e","s">>, <<"p","e","a","r">>, <<"p","e","a","r","s">>,
    <<"p","e","a","c","h">>, <<"p","e","a","c","h","e","s">>, <<"p","l","u","m">>,
    <<"p","l","u","m","s">>, <<"c","h","e","r","r","y">>, <<"c","h","e","r","r","i","e","s">>,
    <<"m","a","n","g","o">>, <<"m","a","n","g","o","e","s">>,
    <<"p","i","n","e","a","p","p","l","e">>, <<"a","v","o","c","a","d","o">>,
    <<"a","v","o","c","a","d","o","s">>, <<"k","i","w","i">>, <<"m","e","l","o","n">>,
    <<"w","a","t","e","r","m","e","l","o","n">>, <<"c","a","n","t","a","l","o","u","p","e">>,
    <<"g","r","a","p","e","f","r","u","i","t">>, <<"c","o","c","o","n","u","t">>,
    <<"p","a","p","a","y","a">>, <<"f","i","g">>, <<"f","i","g","s">>, <<"t","o","m","a","t","o">>,
    <<"t","o","m","a","t","o","e","s">>, <<"o","n","i","o","n">>, <<"o","n","i","o","n","s">>,
    <<"c","a","r","r","o","t">>, <<"c","a","r","r","o","t","s">>, <<"l","e","t","t","u","c","e">>,
    <<"s","p","i","n","a","c","h">>, <<"p","o","t","a","t","o">>,
    <<"p","o","t","a","t","o","e","s">>, <<"b","e","l","l"," ","p","e","p","p","e","r">>,
    <<"b","e","l","l"," ","p","e","p","p","e","r","s">>,
    <<"g","r","e","e","n"," ","b","e","l","l"," ","p","e","p","p","e","r">>,
    <<"g","r","e","e","n"," ","b","e","l","l"," ","p","e","p","p","e","r","s">>,
    <<"r","e","d"," ","b","e","l","l"," ","p","e","p","p","e","r">>,
    <<"r","e","d"," ","b","e","l","l"," ","p","e","p","p","e","r","s">>,
    <<"y","e","l","l","o","w"," ","b","e","l","l"," ","p","e","p","p","e","r">>,
    <<"y","e","l","l","o","w"," ","b","e","l","l"," ","p","e","p","p","e","r","s">>,
    <<"c","u","c","u","m","b","e","r">>, <<"c","u","c","u","m","b","e","r","s">>,
    <<"b","r","o","c","c","o","l","i">>, <<"c","a","u","l","i","f","l","o","w","e","r">>,
    <<"c","a","b","b","a","g","e">>, <<"c","e","l","e","r","y">>, <<"r","a","d","i","s","h">>,
    <<"r","a","d","i","s","h","e","s">>, <<"b","e","e","t">>, <<"b","e","e","t","s">>,
    <<"c","o","r","n">>, <<"p","e","a","s">>, <<"g","r","e","e","n"," ","b","e","a","n","s">>,
    <<"a","s","p","a","r","a","g","u","s">>, <<"z","u","c","c","h","i","n","i">>,
    <<"s","q","u","a","s","h">>, <<"e","g","g","p","l","a","n","t">>,
    <<"m","u","s","h","r","o","o","m">>, <<"m","u","s","h","r","o","o","m","s">>,
    <<"k","a","l","e">>, <<"a","r","u","g","u","l","a">>, <<"c","h","a","r","d">>,
    <<"l","e","e","k">>, <<"l","e","e","k","s">>, <<"s","c","a","l","l","i","o","n">>,
    <<"s","c","a","l","l","i","o","n","s">>, <<"g","r","e","e","n"," ","o","n","i","o","n">>,
    <<"s","h","a","l","l","o","t">>, <<"s","h","a","l","l","o","t","s">>,
    <<"p","e","p","p","e","r">>, <<"p","e","p","p","e","r","s">>
  >>

protein_items ==
  <<
    <<"c","h","i","c","k","e","n">>, <<"b","e","e","f">>, <<"p","o","r","k">>, <<"f","i","s","h">>,
    <<"t","u","r","k","e","y">>, <<"l","a","m","b">>, <<"s","a","l","m","o","n">>,
    <<"t","u","n","a">>, <<"c","o","d">>, <<"s","h","r","i","m","p">>, <<"c","r","a","b">>,
    <<"l","o","b","s","t","e","r">>, <<"e","g","g","s">>, <<"e","g","g">>, <<"t","o","f","u">>,
    <<"t","e","m","p","e","h">>, <<"s","e","i","t","a","n">>, <<"b","e","a","n","s">>,
    <<"l","e","n","t","i","l","s">>, <<"c","h","i","c","k","p","e","a","s">>,
    <<"b","l","a","c","k"," ","b","e","a","n","s">>,
    <<"k","i","d","n","e","y"," ","b","e","a","n","s">>,
    <<"p","i","n","t","o"," ","b","e","a","n","s">>, <<"n","a","v","y"," ","b","e","a","n","s">>,
    <<"l","i","m","a"," ","b","e","a","n","s">>, <<"e","d","a","m","a","m","e">>,
    <<"n","u","t","s">>, <<"a","l","m","o","n","d","s">>, <<"w","a","l","n","u","t","s">>,
    <<"p","e","c","a","n","s">>, <<"c","a","s","h","e","w","s">>, <<"p","e","a","n","u","t","s">>,
    <<"p","i","s","t","a","c","h","i","o","s">>, <<"h","a","z","e","l","n","u","t","s">>,
    <<"b","a","c","o","n">>, <<"h","a","m">>, <<"s","a","u","s","a","g","e">>,
    <<"g","r","o","u","n","d"," ","b","e","e","f">>,
    <<"g","r","o","u","n","d"," ","t","u","r","k","e","y">>,
    <<"g","r","o","u","n","d"," ","c","h","i","c","k","e","n">>, <<"s","t","e","a","k">>,
    <<"p","o","r","k"," ","c","h","o","p","s">>,
    <<"c","h","i","c","k","e","n"," ","b","r","e","a","s","t">>,
    <<"c","h","i","c","k","e","n"," ","t","h","i","g","h","s">>, <<"d","u","c","k">>,
    <<"v","e","n","i","s","o","n">>, <<"b","i","s","o","n">>
  >>

dairy_items ==
  <<
    <<"m","i","l","k">>, <<"c","h","e","e","s","e">>, <<"y","o","g","u","r","t">>,
    <<"b","u","t","t","e","r">>, <<"c","r","e","a","m">>,
    <<"s","o","u","r"," ","c","r","e","a","m">>,
    <<"c","o","t","t","a","g","e"," ","c","h","e","e","s","e">>, <<"r","i","c","o","t","t","a">>,
    <<"m","o","z","z","a","r","e","l","l","a">>, <<"c","h","e","d","d","a","r">>,
    <<"s","w","i","s","s">>, <<"p","a","r","m","e","s","a","n">>, <<"f","e","t","a">>,
    <<"g","o","a","t"," ","c","h","e","e","s","e">>,
    <<"c","r","e","a","m"," ","c","h","e","e","s","e">>,
    <<"h","a","l","f"," ","a","n","d"," ","h","a","l","f">>,
    <<"h","e","a","v","y"," ","c","r","e","a","m">>,
    <<"w","h","i","p","p","e","d"," ","c","r","e","a","m">>,
    <<"i","c","e"," ","c","r","e","a","m">>,
    <<"f","r","o","z","e","n"," ","y","o","g","u","r","t">>, <<"k","e","f","i","r">>,
    <<"b","u","t","t","e","r","m","i","l","k">>,
    <<"c","o","n","d","e","n","s","e","d"," ","m","i","l","k">>,
    <<"e","v","a","p","o","r","a","t","e","d"," ","m","i","l","k">>,
    <<"p","o","w","d","e","r","e","d"," ","m","i","l","k">>
  >>

grain_items ==
  <<
    <<"r","i","c","e">>, <<"b","r","e","a","d">>, <<"p","a","s","t","a">>, <<"f","l","o","u","r">>,
    <<"o","a","t","s">>, <<"q","u","i","n","o","a">>, <<"b","a","r","l","e","y">>,
    <<"w","h","e","a","t">>, <<"r","y","e">>, <<"m","i","l","l","e","t">>,
    <<"b","u","c","k","w","h","e","a","t">>, <<"a","m","a","r","a","n","t","h">>,
    <<"b","u","l","g","u","r">>, <<"c","o","u","s","c","o","u","s">>, <<"f","a","r","r","o">>,
    <<"s","p","e","l","t">>, <<"t","e","f","f">>, <<"c","o","r","n","m","e","a","l">>,
    <<"p","o","l","e","n","t","a">>, <<"g","r","i","t","s">>, <<"c","e","r","e","a","l">>,
    <<"c","r","a","c","k","e","r","s">>, <<"b","a","g","e","l">>, <<"b","a","g","e","l","s">>,
    <<"m","u","f","f","i","n">>, <<"m","u","f","f","i","n","s">>,
    <<"t","o","r","t","i","l","l","a">>, <<"t","o","r","t","i","l","l","a","s">>,
    <<"p","i","t","a">>, <<"n","a","a","n">>, <<"r","o","l","l","s">>, <<"b","u","n","s">>,
    <<"c","r","o","i","s","s","a","n","t">>, <<"c","r","o","i","s","s","a","n","t","s">>,
    <<"p","a","n","c","a","k","e"," ","m","i","x">>, <<"b","a","k","i","n","g"," ","m","i","x">>,
    <<"b","r","e","a","d","c","r","u","m","b","s">>, <<"o","a","t","m","e","a","l">>,
    <<"g","r","a","n","o","l","a">>, <<"m","u","e","s","l","i">>
  >>

spice_items ==
  <<
    <<"s","a","l","t">>, <<"b","l","a","c","k"," ","p","e","p","p","e","r">>,
    <<"w","h","i","t","e"," ","p","e","p","p","e","r">>, <<"g","a","r","l","i","c">>,
    <<"g","i","n","g","e","r">>, <<"b","a","s","i","l">>, <<"o","r","e","g","a","n","o">>,
    <<"t","h","y","m","e">>, <<"r","o","s","e","m","a","r","y">>, <<"s","a","g","e">>,
    <<"p","a","r","s","l","e","y">>, <<"c","i","l","a","n","t","r","o">>, <<"d","i","l","l">>,
    <<"m","i","n","t">>, <<"c","h","i","v","e","s">>, <<"t","a","r","r","a","g","o","n">>,
    <<"b","a","y"," ","l","e","a","v","e","s">>, <<"c","u","m","i","n">>,
    <<"c","o","r","i","a","n","d","e","r">>, <<"p","a","p","r","i","k","a">>,
    <<"c","h","i","l","i"," ","p","o","w","d","e","r">>, <<"c","a","y","e","n","n","e">>,
    <<"t","u","r","m","e","r","i","c">>, <<"c","u","r","r","y"," ","p","o","w","d","e","r">>,
    <<"g","a","r","a","m"," ","m","a","s","a","l","a">>, <<"c","i","n","n","a","m","o","n">>,
    <<"n","u","t","m","e","g">>, <<"c","l","o","v","e","s">>, <<"a","l","l","s","p","i","c","e">>,
    <<"c","a","r","d","a","m","o","m">>, <<"v","a","n","i","l","l","a">>,
    <<"e","x","t","r","a","c","t">>, <<"g","a","r","l","i","c"," ","p","o","w","d","e","r">>,
    <<"o","n","i","o","n"," ","p","o","w","d","e","r">>,
    <<"d","r","i","e","d"," ","h","e","r","b","s">>,
    <<"i","t","a","l","i","a","n"," ","s","e","a","s","o","n","i","n","g">>,
    <<"h","e","r","b","s"," ","d","e"," ","p","r","o","v","e","n","c","e">>,
    <<"e","v","e","r","y","t","h","i","n","g"," ","b","a","g","e","l"," ","s","e","a","s","o","n","i","n","g">>,
    <<"r","e","d"," ","p","e","p","p","e","r"," ","f","l","a","k","e","s">>,
    <<"b","l","a","c","k"," ","p","e","p","p","e","r","c","o","r","n","s">>,
    <<"m","u","s","t","a","r","d"," ","s","e","e","d">>,
    <<"f","e","n","n","e","l"," ","s","e","e","d","s">>,
    <<"c","a","r","a","w","a","y"," ","s","e","e","d","s">>, <<"a","n","i","s","e">>,
    <<"s","t","a","r"," ","a","n","i","s","e">>, <<"s","a","f","f","r","o","n">>
  >>

\* faulty variant: produce is tested before spices
_guess_ingredient_category_produce_first(ingredient_name) ==
  LET name_lower == Lower(ingredient_name)
  IN  IF AnyIn(produce_items, name_lower) THEN "produce"
      ELSE IF AnyIn(spice_items, name_lower) THEN "spices"
      ELSE IF AnyIn(protein_items, name_lower) THEN "protein"
      ELSE IF AnyIn(dairy_items, name_lower) THEN "dairy"
      ELSE IF AnyIn(grain_items, name_lower) THEN "grains"
      ELSE "other"

_guess_ingredient_category(ingredient_name) ==
  LET name_lower == Lower(ingredient_name)
  IN  IF AnyIn(spice_items, name_lower) THEN "spices"
      ELSE IF AnyIn(produce_items, name_lower) THEN "produce"
      ELSE IF AnyIn(protein_items, name_lower) THEN "protein"
      ELSE IF AnyIn(dairy_items, name_lower) THEN "dairy"
      ELSE IF AnyIn(grain_items, name_lower) THEN "grains"
      ELSE "other"

-----------------------------------------------------------------------------
\* Bounds of the model

MaxIds == 3        \* documents the ingredients collection may hold
MaxBatch == 2      \* recognized items in one scan
MaxScans == 2      \* scan requests served
MaxOps == 2        \* manual requests served
MaxNow == 1        \* hours the clock advances

Ids == 1..MaxIds

\* Offsets of the server's local time zone from UTC, in hours
TzOffsets == {0 - 5, 0, 2}

-----------------------------------------------------------------------------
\* Values

Naive(t) == [has |-> TRUE, t |-> t, aware |-> FALSE]
Aware(t) == [has |-> TRUE, t |-> t, aware |-> TRUE]
NoDate == [has |-> FALSE, t |-> 0, aware |-> FALSE]

\* notes texts, by their format string and the values formatted into it
NoNote == [kind |-> "none", confidence |-> 0, prev_quantity |-> 0, prev_unit |-> <<>>]
UserNote == [kind |-> "user", confidence |-> 0, prev_quantity |-> 0, prev_unit |-> <<>>]

sAvocado == <<"A","v","o","c","a","d","o">>
savocado == <<"a","v","o","c","a","d","o">>
sMilk == <<"M","i","l","k">>
sPieces == <<"P","i","e","c","e","s">>
spieces == <<"p","i","e","c","e","s">>
skg == <<"k","g">>
scups == <<"c","u","p","s">>

\* What the recognizer may return for one ingredient (confidence in hundredths)
RecognizedPool ==
  { [name |-> sAvocado, quantity |-> <<"3"," ","p","i","e","c","e","s">>,
     estimatedExpiration |-> <<"4"," ","d","a","y","s">>, confidence |-> 90],
    [name |-> savocado, quantity |-> <<"1"," ","k","g">>,
     estimatedExpiration |-> <<"1"," ","w","e","e","k">>, confidence |-> 85],
    [name |-> sMilk, quantity |-> <<"2",".","5"," ","c","u","p","s">>,
     estimatedExpiration |-> <<"n","e","v","e","r">>, confidence |-> 80] }

RECURSIVE SeqsUpTo(_, _)
\* the sequences over S of length at most n
SeqsUpTo(S, n) ==
  IF n = 0 THEN {<<>>}
  ELSE LET shorter == SeqsUpTo(S, n - 1)
       IN  shorter \cup {Append(q, x) : q \in {p \in shorter : Len(p) = n - 1}, x \in S}

RecognizedBatches == SeqsUpTo(RecognizedPool, MaxBatch)

-----------------------------------------------------------------------------
\* State

VARIABLES
  inventory,   \* the "ingredients" collection: document id -> document
  now,         \* the UTC clock, in hours
  tz,          \* the server's local offset from UTC, in hours
  scan,        \* the scan request each worker is serving
  scans,       \* scan requests accepted so far
  upd,         \* the /update request being served
  cook,        \* the /cooked request being served
  recipes,     \* the "recipes" collection
  ops,         \* manual requests accepted so far
  expiration_settings,  \* the "expiration_settings" collection: <<>> or its "default" document
  summary,     \* the answer of the last GET /expiration/summary
  arg,         \* the text a parser or the classifier is called with
  ret,         \* what that call returned
  generation,  \* the /recipes/generate request being served
  users        \* the "users" collection: <<>> or the document of the demo user

\* no /recipes/generate request is being served
IdleGeneration ==
  [pc |-> "idle", available_ingredients |-> <<>>, cuisines |-> <<>>, idx |-> 0,
   recipes |-> <<>>, log |-> <<>>]

\* the state of the read-only endpoints, of the helper calls and of the recipe
\* and preference endpoints
reads == <<expiration_settings, summary, arg, ret, generation, users>>

vars == <<inventory, now, tz, scan, scans, upd, cook, recipes, ops, reads>>

\* datetime.now() and datetime.utcnow()
datetime_now == Naive(now + tz)
datetime_utcnow == Naive(now)

\* current_date + timedelta(days=d)
PlusDays(d, days) == [d EXCEPT !.t = d.t + 24 * days]

-----------------------------------------------------------------------------
\* Document store

\* the ids of a collection in collection order
SortedIds(coll) ==
  LET D == DOMAIN coll
  IN  [k \in 1..Cardinality(D) |-> CHOOSE i \in D : Cardinality({j \in D : j < i}) = k - 1]

\* FirebaseService.get_collection: [{"id": doc.id, **doc.to_dict()}], [] on failure
get_collection(coll, ok) ==
  IF ok THEN [k \in 1..Cardinality(DOMAIN coll) |->
                [id |-> SortedIds(coll)[k], doc |-> coll[SortedIds(coll)[k]]]]
  ELSE <<>>

\* FirebaseService.query_collection(collection, "name", "==", value), [] on failure
query_collection(coll, value, ok) ==
  SelectSeq(get_collection(coll, ok), LAMBDA d : d.doc.name = value)

\* FirebaseService.create_document: doc_ref.set(data)
create_document(coll, id, data, ok) ==
  IF ok THEN [i \in DOMAIN coll \cup {id} |-> IF i = id THEN data ELSE coll[i]] ELSE coll

\* FirebaseService.update_document: doc_ref.update(data) writes the given fields of
\* an existing document and fails on a missing one
UpdateSucceeds(coll, id, ok) == ok /\ id \in DOMAIN coll

update_document(coll, id, data, ok) ==
  IF UpdateSucceeds(coll, id, ok)
    THEN [coll EXCEPT ![id] =
            [f \in DOMAIN coll[id] |-> IF f \in DOMAIN data THEN data[f] ELSE coll[id][f]]]
    ELSE coll

\* FirebaseService.delete_document
delete_document(coll, id) == [i \in DOMAIN coll \ {id} |-> coll[i]]

-----------------------------------------------------------------------------
\* Ingredient matcher

\* faulty variant: only the exact name is looked up
_find_existing_ingredient_by_name_exact(coll, name, query_ok, collection_ok) ==
  LET existing_ingredients == query_collection(coll, name, query_ok)
  IN  IF existing_ingredients # <<>> THEN <<existing_ingredients[1]>> ELSE <<>>

\* lines 454-474
_find_existing_ingredient_by_name(coll, name, query_ok, collection_ok) ==
  LET existing_ingredients == query_collection(coll, name, query_ok)
      all_ingredients == get_collection(coll, collection_ok)
      same == SelectSeq(all_ingredients, LAMBDA d : Lower(d.doc.name) = Lower(name))
  IN  IF existing_ingredients # <<>> THEN <<existing_ingredients[1]>>
      ELSE IF same # <<>> THEN <<same[1]>>
      ELSE <<>>

-----------------------------------------------------------------------------
\* Scan reconciliation: scan_ingredients, one store call per step

Reqs == {1, 2}

\* ScanRequest.image, by what the handler looks at: the text is empty, is not
\* base64 (b64decode raises), decodes to bytes that are no image, or decodes to
\* an image of a width, a height and a number of bytes
NoImage == [kind |-> "none", width |-> 0, height |-> 0, bytes |-> 0]
ScanImages ==
  { [kind |-> "empty", width |-> 0, height |-> 0, bytes |-> 0],
    [kind |-> "not_base64", width |-> 0, height |-> 0, bytes |-> 0],
    [kind |-> "not_image", width |-> 0, height |-> 0, bytes |-> 12],
    [kind |-> "image", width |-> 99, height |-> 100, bytes |-> 2048],
    [kind |-> "image", width |-> 100, height |-> 99, bytes |-> 2048],
    [kind |-> "image", width |-> 100, height |-> 100, bytes |-> 10 * 1024 * 1024 + 1],
    [kind |-> "image", width |-> 100, height |-> 100, bytes |-> 10 * 1024 * 1024] }

\* faulty variant: an image is too small only when both sides are
validate_image_both_sides(image_data) ==
  /\ image_data.kind = "image"
  /\ ~(image_data.width < 100 /\ image_data.height < 100)
  /\ ~(image_data.bytes > 10 * 1024 * 1024)

\* GroqService.validate_image: False for bytes Image.open cannot read
validate_image(image_data) ==
  /\ image_data.kind = "image"
  /\ ~(image_data.width < 100 \/ image_data.height < 100)
  /\ ~(image_data.bytes > 10 * 1024 * 1024)

\* lines 168-187: the status the checks before the recognizer answer with, 200
\* when they all pass
ScanImageStatus(image) ==
  IF image.kind = "empty" THEN 400
  ELSE IF image.kind = "not_base64" THEN 400
  ELSE IF ~validate_image(image) THEN 400
  ELSE 200

IdleScan ==
  [pc |-> "idle", image |-> NoImage, status |-> 0, recognizer_called |-> FALSE,
   recognized |-> <<>>, idx |-> 0, current_date |-> NoDate,
   existing |-> <<>>, truth |-> <<>>, scanned |-> <<>>, log |-> <<>>]

\* lines 203-213: the parsed fields of one recognized item
ParseText(ingredient_data) ==
  [amount |-> _parse_quantity_value(ingredient_data.quantity),
   unit |-> _parse_unit_value(ingredient_data.quantity),
   days |-> _parse_expiration_days(ingredient_data.estimatedExpiration),
   category |-> _guess_ingredient_category(ingredient_data.name)]

\* the parsers are pure: their results on the recognizer's items, computed once
ParsedPool == [ingredient_data \in RecognizedPool |-> ParseText(ingredient_data)]

ParseItem(ingredient_data, current_date) ==
  LET p == ParsedPool[ingredient_data]
  IN  [amount |-> p.amount, unit |-> p.unit,
       expiration |-> PlusDays(current_date, p.days), category |-> p.category]

\* faulty variant: the scanned amount replaces the stored quantity
MergeQuantityOverwrites(existing_quantity, existing_unit, quantity_amount, quantity_unit) ==
  quantity_amount

\* lines 226-231
MergeQuantity(existing_quantity, existing_unit, quantity_amount, quantity_unit) ==
  IF Lower(existing_unit) = Lower(quantity_unit)
    THEN existing_quantity + quantity_amount
    ELSE quantity_amount

\* min() of a naive and an aware datetime raises TypeError
CompareRaises(a, b) == a.aware # b.aware

\* lines 234-238; the item is abandoned when the comparison raises
MergeRaises(existing_expiration, estimated_expiration) ==
  existing_expiration.has /\ CompareRaises(estimated_expiration, existing_expiration)

MergeExpiration(existing_expiration, estimated_expiration) ==
  IF existing_expiration.has
    THEN IF estimated_expiration.t <= existing_expiration.t
           THEN estimated_expiration ELSE existing_expiration
    ELSE estimated_expiration

\* faulty variant: the update also resets created_at
ScanUpdateDataResetsCreated(ingredient_data, existing_doc, p, current_date) ==
  [quantity |-> IF Lower(existing_doc.unit) = Lower(p.unit)
                  THEN existing_doc.quantity + p.amount ELSE p.amount,
   unit |-> p.unit,
   expiration_date |->
     IF existing_doc.expiration_date.has /\ existing_doc.expiration_date.t < p.expiration.t
       THEN existing_doc.expiration_date ELSE p.expiration,
   updated_at |-> current_date,
   created_at |-> current_date,
   notes |-> [kind |-> "updated", confidence |-> ingredient_data.confidence,
              prev_quantity |-> existing_doc.quantity, prev_unit |-> existing_doc.unit]]

\* lines 241-247
ScanUpdateData(ingredient_data, existing_doc, p, current_date) ==
  [quantity |-> MergeQuantity(existing_doc.quantity, existing_doc.unit, p.amount, p.unit),
   unit |-> p.unit,
   expiration_date |-> MergeExpiration(existing_doc.expiration_date, p.expiration),
   updated_at |-> current_date,
   notes |-> [kind |-> "updated", confidence |-> ingredient_data.confidence,
              prev_quantity |-> existing_doc.quantity, prev_unit |-> existing_doc.unit]]

\* faulty variant: the response reports the scanned amount instead of the merged total
ScannedFromUpdateDelta(ingredient_data, update_data, p) ==
  [name |-> ingredient_data.name,
   amount |-> p.amount,
   unit |-> p.unit,
   estimatedExpiration |-> p.expiration.t,
   category |-> p.category]

\* lines 252-260
ScannedFromUpdate(ingredient_data, update_data, p) ==
  [name |-> ingredient_data.name,
   amount |-> update_data.quantity,
   unit |-> update_data.unit,
   estimatedExpiration |-> update_data.expiration_date.t,
   category |-> p.category]

\* faulty variant: the default location is left out
ScanCreateDataNoLocation(ingredient_data, p, current_date) ==
  [name |-> ingredient_data.name,
   category |-> p.category,
   quantity |-> p.amount,
   unit |-> p.unit,
   expiration_date |-> p.expiration,
   purchase_date |-> current_date,
   location |-> "None",
   notes |-> [kind |-> "scanned", confidence |-> ingredient_data.confidence,
              prev_quantity |-> 0, prev_unit |-> <<>>],
   created_at |-> current_date,
   updated_at |-> current_date,
   image_url |-> ""]

\* lines 267-285
ScanCreateData(ingredient_data, p, current_date) ==
  [name |-> ingredient_data.name,
   category |-> p.category,
   quantity |-> p.amount,
   unit |-> p.unit,
   expiration_date |-> p.expiration,
   purchase_date |-> current_date,
   location |-> "fridge",
   notes |-> [kind |-> "scanned", confidence |-> ingredient_data.confidence,
              prev_quantity |-> 0, prev_unit |-> <<>>],
   created_at |-> current_date,
   updated_at |-> current_date,
   image_url |-> ""]

\* lines 290-298
ScannedFromCreate(ingredient_data, p) ==
  [name |-> ingredient_data.name,
   amount |-> p.amount,
   unit |-> p.unit,
   estimatedExpiration |-> p.expiration.t,
   category |-> p.category]

\* documents the requests in flight may still create
Pending(r) ==
  IF scan[r].pc \in {"lookup", "write"} THEN Len(scan[r].recognized) - scan[r].idx + 1 ELSE 0

\* lines 165-198: the image is accepted and the recognizer answers
ScanBegin(r) ==
  /\ scan[r].pc = "idle"
  /\ scans < MaxScans
  /\ \E image \in ScanImages, batch \in RecognizedBatches :
       /\ ScanImageStatus(image) = 200
       /\ Cardinality(DOMAIN inventory) + Pending(1) + Pending(2) + Len(batch) <= MaxIds
       /\ scan' = [scan EXCEPT ![r] =
                     [IdleScan EXCEPT !.pc = IF batch = <<>> THEN "done" ELSE "lookup",
                                      !.image = image,
                                      !.status = 200,
                                      !.recognizer_called = TRUE,
                                      !.recognized = batch,
                                      !.idx = 1,
                                      !.current_date = datetime_now]]
  /\ scans' = scans + 1
  /\ UNCHANGED <<reads, inventory, now, tz, ops, upd, cook, recipes>>

\* lines 165-187: the image fails a check and the request is answered with an
\* error
ScanReject(r) ==
  /\ scan[r].pc = "idle"
  /\ \E image \in ScanImages :
       /\ ScanImageStatus(image) # 200
       /\ scan' = [scan EXCEPT ![r] =
                     [IdleScan EXCEPT !.pc = "rejected",
                                      !.image = image,
                                      !.status = ScanImageStatus(image)]]
  /\ UNCHANGED <<reads, inventory, now, tz, scans, ops, upd, cook, recipes>>

\* line 216: the lookup of the current item; either read may fail and answer []
ScanLookup(r) ==
  /\ scan[r].pc = "lookup"
  /\ \E query_ok \in BOOLEAN, collection_ok \in BOOLEAN :
       LET name == scan[r].recognized[scan[r].idx].name
       IN  scan' = [scan EXCEPT
             ![r].pc = "write",
             ![r].existing =
                _find_existing_ingredient_by_name(inventory, name, query_ok, collection_ok),
             ![r].truth = _find_existing_ingredient_by_name(inventory, name, TRUE, TRUE)]
  /\ UNCHANGED <<reads, inventory, now, tz, scans, ops, upd, cook, recipes>>

\* faulty variant: a failed item ends the loop
AdvanceStopsOnFailure(s, entry, result) ==
  [s EXCEPT !.pc = IF s.idx = Len(s.recognized) \/ result = <<>> THEN "done" ELSE "lookup",
            !.idx = s.idx + 1,
            !.existing = <<>>,
            !.truth = <<>>,
            !.log = Append(s.log, entry),
            !.scanned = s.scanned \o result]

\* faulty variant: the loop ends one item early
AdvanceOffByOne(s, entry, result) ==
  [s EXCEPT !.pc = IF s.idx >= Len(s.recognized) - 1 THEN "done" ELSE "lookup",
            !.idx = s.idx + 1,
            !.existing = <<>>,
            !.truth = <<>>,
            !.log = Append(s.log, entry),
            !.scanned = s.scanned \o result]

\* the request moves to its next item, or to its response after the last one
Advance(s, entry, result) ==
  [s EXCEPT !.pc = IF s.idx = Len(s.recognized) THEN "done" ELSE "lookup",
            !.idx = s.idx + 1,
            !.existing = <<>>,
            !.truth = <<>>,
            !.log = Append(s.log, entry),
            !.scanned = s.scanned \o result]

LogEntry(s, p, outcome, op, id, data) ==
  [k |-> s.idx, truth |-> s.truth, existing |-> s.existing, parsed |-> p,
   outcome |-> outcome, op |-> op, id |-> id, data |-> data]

\* lines 218-264: the item matched an entry
ScanMerge(r) ==
  LET s == scan[r]
      ingredient_data == s.recognized[s.idx]
      p == ParseItem(ingredient_data, s.current_date)
      existing_ingredient == s.existing[1]
      update_data == ScanUpdateData(ingredient_data, existing_ingredient.doc, p, s.current_date)
  IN  /\ s.pc = "write"
      /\ s.existing # <<>>
      /\ IF MergeRaises(existing_ingredient.doc.expiration_date, p.expiration)
           THEN /\ scan' = [scan EXCEPT ![r] =
                              Advance(s, LogEntry(s, p, "raised", "none", 0, <<>>), <<>>)]
                /\ UNCHANGED inventory
           ELSE \E ok \in BOOLEAN :
                  LET success == UpdateSucceeds(inventory, existing_ingredient.id, ok)
                  IN  /\ inventory' =
                           update_document(inventory, existing_ingredient.id, update_data, ok)
                      /\ scan' = [scan EXCEPT ![r] =
                           Advance(s,
                             LogEntry(s, p, IF success THEN "updated" ELSE "update_failed",
                                      "update", existing_ingredient.id, update_data),
                             IF success
                               THEN <<ScannedFromUpdate(ingredient_data, update_data, p)>>
                               ELSE <<>>)]
      /\ UNCHANGED <<reads, now, tz, scans, ops, upd, cook, recipes>>

\* lines 265-302: the item matched nothing
ScanCreate(r) ==
  LET s == scan[r]
      ingredient_data == s.recognized[s.idx]
      p == ParseItem(ingredient_data, s.current_date)
      ingredient_data_dict == ScanCreateData(ingredient_data, p, s.current_date)
  IN  /\ s.pc = "write"
      /\ s.existing = <<>>
      /\ \E ingredient_id \in Ids \ DOMAIN inventory, success \in BOOLEAN :
           /\ inventory' =
                create_document(inventory, ingredient_id, ingredient_data_dict, success)
           /\ scan' = [scan EXCEPT ![r] =
                Advance(s,
                  LogEntry(s, p, IF success THEN "created" ELSE "create_failed",
                           "create", ingredient_id, ingredient_data_dict),
                  IF success THEN <<ScannedFromCreate(ingredient_data, p)>> ELSE <<>>)]
      /\ UNCHANGED <<reads, now, tz, scans, ops, upd, cook, recipes>>

\* line 308 (and line 194): the response is returned
ScanReturn(r) ==
  /\ scan[r].pc \in {"done", "rejected"}
  /\ scan' = [scan EXCEPT ![r] = IdleScan]
  /\ UNCHANGED <<reads, inventory, now, tz, scans, ops, upd, cook, recipes>>

-----------------------------------------------------------------------------
\* Manual inventory endpoints

\* IngredientCreate bodies a client may send
IngredientPool ==
  { [name |-> savocado, category |-> "produce", quantity |-> 20, unit |-> sPieces,
     expiration_date |-> NoDate, purchase_date |-> NoDate, location |-> "pantry",
     notes |-> UserNote],
    [name |-> sAvocado, category |-> "produce", quantity |-> 0 - 10, unit |-> spieces,
     expiration_date |-> Aware(120), purchase_date |-> NoDate, location |-> "None",
     notes |-> NoNote],
    [name |-> sMilk, category |-> "dairy", quantity |-> 0, unit |-> scups,
     expiration_date |-> Naive(48), purchase_date |-> Naive(0), location |-> "fridge",
     notes |-> NoNote] }

\* IngredientUpdate bodies a client may send (the fields that are set)
UpdatePool ==
  { [quantity |-> 0 - 10],
    [expiration_date |-> Aware(120), location |-> "pantry"] }

\* POST /ingredients/
create_ingredient ==
  /\ ops < MaxOps
  /\ \E ingredient \in IngredientPool, ingredient_id \in Ids \ DOMAIN inventory :
       LET ingredient_data ==
             [f \in DOMAIN ingredient \cup {"created_at", "updated_at", "image_url"} |->
                CASE f = "created_at" -> datetime_utcnow
                  [] f = "updated_at" -> datetime_utcnow
                  [] f = "image_url" -> ""
                  [] OTHER -> ingredient[f]]
       IN  inventory' = create_document(inventory, ingredient_id, ingredient_data, TRUE)
  /\ ops' = ops + 1
  /\ UNCHANGED <<reads, now, tz, scan, scans, upd, cook, recipes>>

\* PUT /ingredients/{ingredient_id}
update_ingredient ==
  /\ ops < MaxOps
  /\ \E ingredient_id \in DOMAIN inventory, ingredient_update \in UpdatePool :
       LET update_data ==
             [f \in DOMAIN ingredient_update \cup {"updated_at"} |->
                IF f = "updated_at" THEN datetime_utcnow ELSE ingredient_update[f]]
       IN  inventory' = update_document(inventory, ingredient_id, update_data, TRUE)
  /\ ops' = ops + 1
  /\ UNCHANGED <<reads, now, tz, scan, scans, upd, cook, recipes>>

\* DELETE /ingredients/{ingredient_id}
delete_ingredient ==
  /\ ops < MaxOps
  /\ \E ingredient_id \in DOMAIN inventory :
       inventory' = delete_document(inventory, ingredient_id)
  /\ ops' = ops + 1
  /\ UNCHANGED <<reads, now, tz, scan, scans, upd, cook, recipes>>

\* POST /ingredients/upload-image/{ingredient_id}
upload_ingredient_image ==
  /\ ops < MaxOps
  /\ \E ingredient_id \in DOMAIN inventory :
       inventory' = update_document(inventory, ingredient_id,
                      [image_url |-> "url", updated_at |-> datetime_utcnow], TRUE)
  /\ ops' = ops + 1
  /\ UNCHANGED <<reads, now, tz, scan, scans, upd, cook, recipes>>

\* POST /ingredients/update, one submitted ingredient per step
IdleUpdate == [pc |-> "idle", ingredients |-> <<>>, idx |-> 0, current_time |-> NoDate,
               updated_ingredient_ids |-> <<>>]

UpdateBatches == SeqsUpTo(IngredientPool, MaxBatch) \ {<<>>}

UpdateBegin ==
  /\ upd.pc = "idle"
  /\ ops < MaxOps
  /\ \E batch \in UpdateBatches :
       /\ Cardinality(DOMAIN inventory) + Len(batch) <= MaxIds
       /\ upd' = [pc |-> "item", ingredients |-> batch, idx |-> 1,
                  current_time |-> datetime_now, updated_ingredient_ids |-> <<>>]
  /\ ops' = ops + 1
  /\ UNCHANGED <<reads, inventory, now, tz, scan, scans, cook, recipes>>

\* lines 338-344
ManualUpdateData(ingredient_create, existing_doc, current_time) ==
  [f \in DOMAIN ingredient_create \cup {"updated_at"} |->
     CASE f = "updated_at" -> current_time
       [] f = "quantity" ->
            IF ingredient_create.quantity # 0
              THEN existing_doc.quantity + ingredient_create.quantity
              ELSE ingredient_create.quantity
       [] OTHER -> ingredient_create[f]]

UpdateItem ==
  /\ upd.pc = "item"
  /\ \E query_ok \in BOOLEAN, ok \in BOOLEAN, new_id \in Ids \ DOMAIN inventory :
       LET ingredient_create == upd.ingredients[upd.idx]
           existing_ingredients == query_collection(inventory, ingredient_create.name, query_ok)
           create_data ==
             [f \in DOMAIN ingredient_create \cup {"created_at", "updated_at", "image_url"} |->
                CASE f = "created_at" -> upd.current_time
                  [] f = "updated_at" -> upd.current_time
                  [] f = "image_url" -> ""
                  [] OTHER -> ingredient_create[f]]
           ingredient_id ==
             IF existing_ingredients # <<>> THEN existing_ingredients[1].id ELSE new_id
       IN  /\ inventory' =
                IF existing_ingredients # <<>>
                  THEN update_document(inventory, ingredient_id,
                         ManualUpdateData(ingredient_create, existing_ingredients[1].doc,
                                          upd.current_time), ok)
                  ELSE create_document(inventory, ingredient_id, create_data, ok)
           /\ upd' = [upd EXCEPT
                !.pc = IF upd.idx = Len(upd.ingredients) THEN "done" ELSE "item",
                !.idx = upd.idx + 1,
                !.updated_ingredient_ids =
                   IF ok THEN Append(upd.updated_ingredient_ids, ingredient_id)
                   ELSE upd.updated_ingredient_ids]
  /\ UNCHANGED <<reads, now, tz, scan, scans, ops, cook, recipes>>

UpdateReturn ==
  /\ upd.pc = "done"
  /\ upd' = IdleUpdate
  /\ UNCHANGED <<reads, inventory, now, tz, scan, scans, ops, cook, recipes>>

-----------------------------------------------------------------------------
\* POST /recipes/cooked, one recipe ingredient per step

IdleCook == [pc |-> "idle", recipeId |-> 0, ingredients |-> <<>>, idx |-> 0,
             updated_ingredients |-> <<>>]

\* recipes.parse_quantity: the same expression as _parse_quantity_value
parse_quantity(amount_str) == _parse_quantity_value(amount_str)

CookBegin ==
  /\ cook.pc = "idle"
  /\ ops < MaxOps
  /\ \E recipeId \in DOMAIN recipes, success \in BOOLEAN :
       IF success
         THEN /\ recipes' = [recipes EXCEPT ![recipeId].cookedCount = @ + 1]
              /\ cook' = [pc |-> IF recipes[recipeId].ingredients = <<>>
                                   THEN "done" ELSE "item",
                          recipeId |-> recipeId,
                          ingredients |-> recipes[recipeId].ingredients, idx |-> 1,
                          updated_ingredients |-> <<>>]
         ELSE UNCHANGED <<recipes, cook>>
  /\ ops' = ops + 1
  /\ UNCHANGED <<reads, inventory, now, tz, scan, scans, upd>>

CookItem ==
  /\ cook.pc = "item"
  /\ \E query_ok \in BOOLEAN, collection_ok \in BOOLEAN, ok \in BOOLEAN :
       LET recipe_ingredient == cook.ingredients[cook.idx]
           ingredient_name == Lower(recipe_ingredient.name)
           required_amount == parse_quantity(recipe_ingredient.amount)
           exact == query_collection(inventory, ingredient_name, query_ok)
           inventory_ingredients ==
             IF exact # <<>> THEN exact
             ELSE SelectSeq(get_collection(inventory, collection_ok),
                            LAMBDA d : Lower(d.doc.name) = ingredient_name)
           current_quantity == inventory_ingredients[1].doc.quantity
           new_quantity == IF current_quantity - required_amount > 0
                             THEN current_quantity - required_amount ELSE 0
           ingredient_success ==
             /\ inventory_ingredients # <<>>
             /\ UpdateSucceeds(inventory, inventory_ingredients[1].id, ok)
       IN  /\ inventory' =
                IF inventory_ingredients # <<>>
                  THEN update_document(inventory, inventory_ingredients[1].id,
                         [quantity |-> new_quantity, updated_at |-> datetime_utcnow], ok)
                  ELSE inventory
           /\ cook' = [cook EXCEPT
                !.pc = IF cook.idx = Len(cook.ingredients) THEN "done" ELSE "item",
                !.idx = cook.idx + 1,
                !.updated_ingredients =
                   IF ingredient_success
                     THEN Append(@, [id |-> inventory_ingredients[1].id,
                                     name |-> inventory_ingredients[1].doc.name,
                                     previousQuantity |-> current_quantity,
                                     newQuantity |-> new_quantity,
                                     used |-> required_amount])
                     ELSE @]
  /\ UNCHANGED <<reads, now, tz, scan, scans, ops, upd, recipes>>

CookReturn ==
  /\ cook.pc = "done"
  /\ cook' = IdleCook
  /\ UNCHANGED <<reads, inventory, now, tz, scan, scans, ops, upd, recipes>>

-----------------------------------------------------------------------------
\* Clock

Tick ==
  /\ now < MaxNow
  /\ now' = now + 1
  /\ UNCHANGED <<reads, inventory, tz, scan, scans, ops, upd, cook, recipes>>

-----------------------------------------------------------------------------
\* Specifications

\* Documents the endpoints above leave in the store: the entry an earlier scan
\* created (the document of src/test_duplicate_ingredient_removal.py), and
\* entries added by hand through POST /ingredients/
StoredAvocado ==
  [name |-> savocado, category |-> "produce", quantity |-> 10, unit |-> spieces,
   expiration_date |-> Naive(120), purchase_date |-> Naive(0 - 24), location |-> "fridge",
   notes |-> [kind |-> "scanned", confidence |-> 90, prev_quantity |-> 0, prev_unit |-> <<>>],
   created_at |-> Naive(0 - 24), updated_at |-> Naive(0 - 24), image_url |-> ""]

\* the document create_ingredient stores for a body, at time t
ManualDoc(ingredient, t) ==
  [f \in DOMAIN ingredient \cup {"created_at", "updated_at", "image_url"} |->
     CASE f = "created_at" -> Naive(t)
       [] f = "updated_at" -> Naive(t)
       [] f = "image_url" -> ""
       [] OTHER -> ingredient[f]]

PoolDoc(n) == ManualDoc(CHOOSE i \in IngredientPool : i.name = n, 0 - 24)

InitialInventories ==
  { <<>>,
    [i \in {2} |-> StoredAvocado],
    [i \in {2} |-> PoolDoc(savocado)],
    [i \in {1} |-> PoolDoc(sAvocado)],
    [i \in {1, 2} |-> IF i = 1 THEN StoredAvocado ELSE PoolDoc(sAvocado)] }

StoredRecipes ==
  [i \in {1} |->
     [cookedCount |-> 0,
      ingredients |-> << [name |-> sAvocado, amount |-> <<"1">>],
                         [name |-> sMilk, amount |-> <<"2"," ","c","u","p","s">>] >>]]

NoRequest ==
  /\ scan = [r \in Reqs |-> IdleScan]
  /\ upd = IdleUpdate
  /\ cook = IdleCook
  /\ recipes = StoredRecipes
  /\ now = 0

\* nothing was read and no helper was called
NoReads ==
  /\ expiration_settings = <<>> /\ summary = <<>> /\ arg = <<>> /\ ret = <<>>
  /\ generation = IdleGeneration /\ users = <<>>

\* no request is being served
Quiet == (\A r \in Reqs : scan[r].pc = "idle") /\ upd.pc = "idle" /\ cook.pc = "idle"

\* Scan requests served one after the other by one worker
Init ==
  /\ NoRequest
  /\ NoReads
  /\ inventory \in InitialInventories
  /\ tz \in TzOffsets
  /\ scans = 0
  /\ ops = 0

Next ==
  \/ Quiet /\ ScanBegin(1)
  \/ ScanLookup(1)
  \/ ScanMerge(1)
  \/ ScanCreate(1)
  \/ ScanReturn(1)
  \/ Quiet /\ Tick

Spec == Init /\ [][Next]_vars

\* Scan requests with any image, served one after the other: those the checks
\* before the recognizer turn away, and those they let through
NextScan ==
  \/ Next
  \/ Quiet /\ ScanReject(1)

SpecScan == Init /\ [][NextScan]_vars

\* All the endpoints that write the inventory, served one after the other,
\* starting from the empty store
InitOps ==
  /\ NoRequest
  /\ NoReads
  /\ inventory = <<>>
  /\ tz \in TzOffsets
  /\ scans = MaxScans - 1
  /\ ops = 0

NextOps ==
  \/ Next
  \/ Quiet /\ create_ingredient
  \/ Quiet /\ update_ingredient
  \/ Quiet /\ delete_ingredient
  \/ Quiet /\ upload_ingredient_image
  \/ Quiet /\ UpdateBegin
  \/ UpdateItem
  \/ UpdateReturn
  \/ Quiet /\ CookBegin
  \/ CookItem
  \/ CookReturn

SpecOps == InitOps /\ [][NextOps]_vars

\* Two workers serving scan requests against the same store; a step is one
\* store call, and nothing orders the calls of the two requests
InitConc ==
  /\ NoRequest
  /\ NoReads
  /\ inventory \in {<<>>, [i \in {2} |-> StoredAvocado]}
  /\ tz = 0
  /\ scans = 0
  /\ ops = 0

NextConc ==
  \E r \in Reqs :
    \/ ScanBegin(r)
    \/ ScanLookup(r)
    \/ ScanMerge(r)
    \/ ScanCreate(r)
    \/ ScanReturn(r)

SpecConc == InitConc /\ [][NextConc]_vars

\* The scan handler runs its loop to the end: each store call returns and the
\* for loop then takes its next step
SpecLive ==
  Init /\ [][Next]_vars
    /\ WF_vars(ScanLookup(1)) /\ WF_vars(ScanMerge(1)) /\ WF_vars(ScanCreate(1))

-----------------------------------------------------------------------------
\* The parsers and the classifier on their own: a call of each on a text

\* texts a recognizer may give as estimatedExpiration
ExpirationPrefixes ==
  {
    <<>>, <<"-">>, <<"a","b","o","u","t"," ">> }
ExpirationNumbers ==
  {
    <<>>, <<"0">>, <<"3">>, <<"1","2">>, <<"1",".","5">> }
ExpirationUnits ==
  {
    <<>>, <<" ","d","a","y">>, <<" ","D","a","y","s">>, <<"d","a","y","s">>,
    <<" ","w","e","e","k">>, <<" ","W","E","E","K","S">>, <<" ","m","o","n","t","h">>,
    <<" ","m","o","n","t","h","s">>, <<" ","y","e","a","r">>, <<" ","n","e","v","e","r">>,
    <<" ","w","e","e","k","s"," ","3"," ","d","a","y","s">>,
    <<" ","m","o","n","t","h","s"," ","2"," ","w","e","e","k","s">>,
    <<" ","d","a","y","s"," ","2"," ","m","o","n","t","h","s">> }
ExpirationTexts ==
  {p \o n \o u : p \in ExpirationPrefixes, n \in ExpirationNumbers, u \in ExpirationUnits}

\* texts a recognizer may give as quantity (amounts of at most one decimal)
QuantityNumbers ==
  {
    <<>>, <<"0">>, <<"3">>, <<"1","2">>, <<"2",".","5">>, <<"5",".">>, <<".","5">>,
    <<"2"," ","t","o"," ","3">>, <<"0",".","0">> }
QuantityUnits ==
  {
    <<>>, <<" ">>, <<" "," "," ">>, <<" ","p","i","e","c","e","s">>,
    <<" ","I","t","e","m","s">>, <<" ","b","o","t","t","l","e">>, <<" ","b","o","x">>,
    <<" ","c","o","n","t","a","i","n","e","r">>, <<" ","c","u","p","s">>, <<" ","l","b">>,
    <<" ","p","o","u","n","d","s">>, <<"k","g">>, <<" ","K","G">>,
    <<" ","c","a","r","t","o","n">>, <<" ","l","o","a","f">>, <<" ","l","o","a","v","e","s">>,
    <<" ","b","l","o","c","k">>, <<" ","c","a","r","t","o","n"," ","b","o","x">>,
    <<" ","k","g"," ","o","f"," ","c","u","p","s">>, <<" ","p","i","e","c","e","s","!">>,
    <<" ","b","l","o","c","k","s"," ","o","f"," ","2"," ","k","g">> }
QuantityTexts == {n \o u : n \in QuantityNumbers, u \in QuantityUnits}

\* names a recognizer may give
NamePrefixes ==
  {
    <<>>, <<"B","e","l","l"," ">>, <<"B","l","a","c","k"," ">>, <<"R","e","d"," ">>,
    <<"S","a","l","t","e","d"," ">>, <<"G","a","r","l","i","c"," ">>, <<"E","g","g">>,
    <<"B","u","t","t","e","r"," ">> }
NameHeads ==
  {
    <<>>, <<"p","e","p","p","e","r">>, <<"P","e","p","p","e","r">>,
    <<"P","e","p","p","e","r","s">>, <<"P","e","p","p","e","r"," ","F","l","a","k","e","s">>,
    <<"p","l","a","n","t">>, <<"M","i","l","k">>, <<"C","h","i","c","k","e","n">>,
    <<"R","i","c","e">>, <<"B","r","e","a","d">>, <<"S","o","d","a">>, <<"C","o","r","n">>,
    <<"s">> }
NameTexts == {p \o h : p \in NamePrefixes, h \in NameHeads}

Texts == ExpirationTexts \cup QuantityTexts \cup NameTexts

NoReturn == <<>>
Returned(fn, days, amount, unit, category) ==
  <<[fn |-> fn, days |-> days, amount |-> amount, unit |-> unit, category |-> category]>>

\* line 204: expiration_days = _parse_expiration_days(expiration_str)
CallParseExpirationDays ==
  /\ ret = NoReturn
  /\ ret' = Returned("_parse_expiration_days", _parse_expiration_days(arg), 0, <<>>, "")
  /\ UNCHANGED <<inventory, now, tz, scan, scans, upd, cook, recipes, ops, generation, users,
                 expiration_settings, summary, arg>>

\* lines 209-210: quantity_amount and quantity_unit of one quantity text
CallParseQuantity ==
  /\ ret = NoReturn
  /\ ret' = Returned("_parse_quantity", 0, _parse_quantity_value(arg),
                     _parse_unit_value(arg), "")
  /\ UNCHANGED <<inventory, now, tz, scan, scans, upd, cook, recipes, ops, generation, users,
                 expiration_settings, summary, arg>>

\* line 213: category = _guess_ingredient_category(ingredient_data['name'])
CallGuessIngredientCategory ==
  /\ ret = NoReturn
  /\ ret' = Returned("_guess_ingredient_category", 0, 0, <<>>,
                     _guess_ingredient_category(arg))
  /\ UNCHANGED <<inventory, now, tz, scan, scans, upd, cook, recipes, ops, generation, users,
                 expiration_settings, summary, arg>>

InitParse ==
  /\ NoRequest
  /\ inventory = <<>>
  /\ tz = 0
  /\ scans = 0
  /\ ops = 0
  /\ expiration_settings = <<>>
  /\ summary = <<>>
  /\ generation = IdleGeneration
  /\ users = <<>>
  /\ arg \in Texts
  /\ ret = NoReturn

NextParse ==
  \/ CallParseExpirationDays
  \/ CallParseQuantity
  \/ CallGuessIngredientCategory

SpecParse == InitParse /\ [][NextParse]_vars

-----------------------------------------------------------------------------
\* Recipe matching: calculate_match_score of src/app/api/recipes.py, called on a
\* recipe's ingredient list and the names of the inventory

MaxRecipeIngredients == 2
MaxAvailable == 2

\* a float quotient matches / len, kept as the pair it is computed from
Quotient(n, d) == [num |-> n, den |-> d]

\* recipe_ing.get("name", ""): an ingredient dict may lack the key
NameOrEmpty(recipe_ing) == IF recipe_ing.name = <<>> THEN <<>> ELSE recipe_ing.name[1]

\* faulty variant: only `ing_name in avail` is tested
IngredientMatchesContainedOnly(ing_name, available_lower) ==
  \E k \in 1..Len(available_lower) : Contains(available_lower[k], ing_name)

\* line 458: any(ing_name in avail or avail in ing_name for avail in available_lower)
IngredientMatches(ing_name, available_lower) ==
  \E k \in 1..Len(available_lower) :
    Contains(available_lower[k], ing_name) \/ Contains(ing_name, available_lower[k])

RECURSIVE CountMatches(_, _)
\* lines 454-459: the loop that counts the matched recipe ingredients
CountMatches(recipe_ingredients, available_lower) ==
  IF recipe_ingredients = <<>> THEN 0
  ELSE LET ing_name == Lower(NameOrEmpty(recipe_ingredients[Len(recipe_ingredients)]))
       IN  CountMatches(SubSeq(recipe_ingredients, 1, Len(recipe_ingredients) - 1),
                        available_lower)
             + (IF IngredientMatches(ing_name, available_lower) THEN 1 ELSE 0)

\* lines 447-461
calculate_match_score(recipe_ingredients, available_ingredients) ==
  IF recipe_ingredients = <<>> THEN Quotient(0, 1)
  ELSE LET available_lower == [k \in 1..Len(available_ingredients) |->
                                 Lower(available_ingredients[k])]
       IN  Quotient(CountMatches(recipe_ingredients, available_lower),
                    Len(recipe_ingredients))

\* names of recipe ingredients and of inventory entries
MatchNames ==
  {
    <<>>, <<"E","g","g">>, <<"e","g","g","s">>, <<"M","i","l","k">>,
    <<"e","g","g"," ","n","o","o","d","l","e","s">>, <<"r","i","c","e">> }
RecipeIngredientDicts == {[name |-> <<n>>] : n \in MatchNames} \cup {[name |-> <<>>]}
MatchCalls ==
  {[recipe_ingredients |-> r, available_ingredients |-> a] :
     r \in SeqsUpTo(RecipeIngredientDicts, MaxRecipeIngredients),
     a \in SeqsUpTo(MatchNames, MaxAvailable)}

\* line 101: match_score = calculate_match_score(recipe ingredients, available)
CallCalculateMatchScore ==
  /\ ret = NoReturn
  /\ ret' = <<[fn |-> "calculate_match_score",
               score |-> calculate_match_score(arg.recipe_ingredients,
                                               arg.available_ingredients)]>>
  /\ UNCHANGED <<inventory, now, tz, scan, scans, upd, cook, recipes, ops, generation, users,
                 expiration_settings, summary, arg>>

InitMatch ==
  /\ NoRequest
  /\ inventory = <<>>
  /\ tz = 0
  /\ scans = 0
  /\ ops = 0
  /\ expiration_settings = <<>>
  /\ summary = <<>>
  /\ generation = IdleGeneration
  /\ users = <<>>
  /\ arg \in MatchCalls
  /\ ret = NoReturn

NextMatch == CallCalculateMatchScore

SpecMatch == InitMatch /\ [][NextMatch]_vars

-----------------------------------------------------------------------------
\* POST /recipes/generate: generate_recipes of src/app/api/recipes.py, one
\* cuisine (one generated recipe, one store write) per step

MaxCuisinePreferences == 1
MaxRecipeDocs == 4

\* line 91: cuisines_to_try[:3]
MaxGenerated == 3

sThai == <<"T","h","a","i">>
DefaultCuisines == << <<"I","n","t","e","r","n","a","t","i","o","n","a","l">>,
                      <<"I","t","a","l","i","a","n">>,
                      <<"A","m","e","r","i","c","a","n">> >>

\* preferenceOverrides.cuisinePreferences of a request
CuisinePreferences == SeqsUpTo({sThai}, MaxCuisinePreferences)

\* lines 89-91: the cuisines the loop runs over
CuisinesToTry(cuisine_preferences) ==
  LET cuisines == IF cuisine_preferences # <<>> THEN cuisine_preferences ELSE DefaultCuisines
  IN  SubSeq(cuisines, 1, IF Len(cuisines) < MaxGenerated THEN Len(cuisines) ELSE MaxGenerated)

\* lines 63-72: the names of the entries with a positive quantity, and the
\* must-use names that are not among them
AvailableIngredients(ingredients_data, mustUseIngredients) ==
  LET have == SelectSeq(ingredients_data, LAMBDA d : d.doc.quantity > 0)
      names == [k \in 1..Len(have) |-> have[k].doc.name]
  IN  names \o SelectSeq(mustUseIngredients,
                         LAMBDA m : \A k \in 1..Len(names) : names[k] # m)

\* mustUseIngredients of a request
MustUsePool == {<<>>, <<sMilk>>, <<savocado>>}

\* what gemini_service.generate_recipe may give: a recipe dict, one with a blank
\* name, or an exception
GeneratedRecipeDicts ==
  { [raised |-> FALSE, name |-> <<"G","u","a","c","a","m","o","l","e">>,
     ingredients |-> << [name |-> << savocado >>] >>],
    [raised |-> FALSE, name |-> <<" ">>, ingredients |-> <<>>],
    [raised |-> TRUE, name |-> <<>>, ingredients |-> <<>>] }

\* what gemini_service.generate_recipe_image may do: return a storage URL, a
\* local path or None, or raise
ImageOutcomes == {"url", "path", "none", "raised"}

\* str.strip() of a name made of letters and blanks is empty iff all are blanks
IsBlank(s) == \A i \in 1..Len(s) : s[i] = " "

\* lines 110-139: image_url after the guarded image generation, None as <<>>
GeneratedImageUrl(recipe_name, image) ==
  IF IsBlank(recipe_name) THEN <<>>
  ELSE CASE image = "url" -> <<"https://storage/recipe.png">>
         [] image = "path" -> <<"/static/recipe.png">>
         [] OTHER -> <<>>

\* faulty variant: recipe creation goes on only with an image
RecipeCreationContinuesWithImageOnly(recipe_dict, image) ==
  ~recipe_dict.raised /\ GeneratedImageUrl(recipe_dict.name, image) # <<>>

\* lines 92-140 and 204-206: the iteration reaches the store write unless
\* generate_recipe raised; the try around the image generation catches its
\* exceptions
RecipeCreationContinues(recipe_dict, image) == ~recipe_dict.raised

\* lines 166-189
GeneratedRecipeData(recipe_dict, image_url, match_score) ==
  [name |-> recipe_dict.name, ingredients |-> recipe_dict.ingredients,
   imageName |-> image_url, matchScore |-> match_score, cookedCount |-> 0,
   status |-> "generated"]

\* str(uuid.uuid4()): an id no stored recipe has
NewRecipeId(coll) == Cardinality(DOMAIN coll) + 1

\* lines 56-91: the available ingredients are read and the cuisines chosen
GenerateBegin ==
  /\ generation.pc = "idle"
  /\ Cardinality(DOMAIN recipes) + MaxGenerated <= MaxRecipeDocs
  /\ \E cuisine_preferences \in CuisinePreferences, mustUseIngredients \in MustUsePool,
        ok \in BOOLEAN :
       generation' = [IdleGeneration EXCEPT
                        !.pc = "cuisine",
                        !.available_ingredients =
                           AvailableIngredients(get_collection(inventory, ok),
                                                mustUseIngredients),
                        !.cuisines = CuisinesToTry(cuisine_preferences),
                        !.idx = 1]
  /\ UNCHANGED <<inventory, now, tz, scan, scans, upd, cook, recipes, ops,
                 expiration_settings, summary, arg, ret, users>>

\* lines 92-206: one iteration of the loop
GenerateRecipe ==
  /\ generation.pc = "cuisine"
  /\ \E recipe_dict \in GeneratedRecipeDicts, image \in ImageOutcomes, success \in BOOLEAN :
       LET available_ingredients == generation.available_ingredients
           recipe_id == NewRecipeId(recipes)
           image_url == GeneratedImageUrl(recipe_dict.name, image)
           recipe_data ==
             GeneratedRecipeData(recipe_dict, image_url,
               calculate_match_score(recipe_dict.ingredients, available_ingredients))
           continues == RecipeCreationContinues(recipe_dict, image)
           stored == continues /\ success
       IN  /\ recipes' = IF continues
                           THEN create_document(recipes, recipe_id, recipe_data, success)
                           ELSE recipes
           /\ generation' = [generation EXCEPT
                !.pc = IF generation.idx = Len(generation.cuisines) THEN "done" ELSE "cuisine",
                !.idx = generation.idx + 1,
                !.recipes = IF stored
                              THEN Append(@, [id |-> recipe_id, data |-> recipe_data])
                              ELSE @,
                !.log = Append(@, [generated |-> ~recipe_dict.raised,
                                   name |-> recipe_dict.name,
                                   image |-> image, success |-> success,
                                   id |-> recipe_id])]
  /\ UNCHANGED <<inventory, now, tz, scan, scans, upd, cook, ops,
                 expiration_settings, summary, arg, ret, users>>

\* line 208: return {"recipes": recipes}
GenerateReturn ==
  /\ generation.pc = "done"
  /\ generation' = IdleGeneration
  /\ UNCHANGED <<inventory, now, tz, scan, scans, upd, cook, recipes, ops,
                 expiration_settings, summary, arg, ret, users>>

\* one generate request against a store that holds one recipe
InitGenerate ==
  /\ NoRequest
  /\ NoReads
  /\ inventory \in {<<>>, [i \in {2} |-> StoredAvocado]}
  /\ tz = 0
  /\ scans = 0
  /\ ops = 0

NextGenerate ==
  \/ GenerateBegin
  \/ GenerateRecipe
  \/ GenerateReturn

SpecGenerate == InitGenerate /\ [][NextGenerate]_vars

-----------------------------------------------------------------------------
\* User preferences: src/app/api/users.py. The "users" collection holds at most
\* the document of DEMO_USER_ID, kept under the key 1.

MaxPreferenceUpdates == 3

DEFAULT_PREFERENCES ==
  [dietaryRestrictions |-> <<>>, allergens |-> <<>>,
   cuisinePreferences |-> <<"italian", "american", "mexican">>,
   cookingTime |-> "any", skillLevel |-> "beginner"]

valid_fields ==
  {"dietaryRestrictions", "allergens", "cuisinePreferences", "cookingTime", "skillLevel"}

\* bodies a client may post: some of the five fields, none, or an unknown one
PreferenceBodies ==
  { [dietaryRestrictions |-> <<"vegan", "gluten-free">>,
     cuisinePreferences |-> <<"indian", "mediterranean">>],
    [allergens |-> <<"peanuts", "shellfish">>, skillLevel |-> "intermediate",
     cookingTime |-> "30min"],
    [cookingTime |-> "any"],
    [skillLevel |-> "advanced", theme |-> "dark"],
    <<>> }

\* dict.update: the fields of `other` over those of `d`
DictUpdate(d, other) ==
  [f \in DOMAIN d \cup DOMAIN other |-> IF f \in DOMAIN other THEN other[f] ELSE d[f]]

\* FirebaseService.get_document("users", DEMO_USER_ID): None when missing or on
\* a failed read
get_user_document(ok) == IF ok THEN users ELSE <<>>

\* lines 41-47 and 84-92: the defaults under the stored preferences
PreferencesOver(user_doc) ==
  IF user_doc # <<>> THEN DictUpdate(DEFAULT_PREFERENCES, user_doc[1].preferences)
  ELSE DEFAULT_PREFERENCES

\* lines 95-105: the provided valid fields over the current preferences
UpdatedPreferences(current_preferences, preferences) ==
  DictUpdate(current_preferences,
             [f \in DOMAIN preferences \cap valid_fields |-> preferences[f]])

\* GET /preferences
get_preferences ==
  /\ \E ok \in BOOLEAN :
       ret' = <<[fn |-> "get_preferences", success |-> TRUE,
                 current_preferences |-> PreferencesOver(get_user_document(ok)),
                 preferences |-> PreferencesOver(get_user_document(ok))]>>
  /\ arg' = <<>>
  /\ UNCHANGED <<inventory, now, tz, scan, scans, upd, cook, recipes, ops,
                 expiration_settings, summary, generation, users>>

\* POST /preferences: two reads of the user document, then update_document on an
\* existing document and create_document otherwise
update_preferences ==
  /\ ops < MaxPreferenceUpdates
  /\ \E preferences \in PreferenceBodies, read_ok \in BOOLEAN, exists_ok \in BOOLEAN,
        ok \in BOOLEAN :
       LET current_preferences == PreferencesOver(get_user_document(read_ok))
           updated_preferences == UpdatedPreferences(current_preferences, preferences)
           user_data == [preferences |-> updated_preferences, userId |-> "demo_user"]
           existing_doc == get_user_document(exists_ok)
           success == IF existing_doc # <<>> THEN UpdateSucceeds(users, 1, ok) ELSE ok
       IN  /\ users' = IF existing_doc # <<>>
                         THEN update_document(users, 1, user_data, ok)
                         ELSE create_document(users, 1, user_data, ok)
           /\ arg' = preferences
           /\ ret' = <<[fn |-> "update_preferences", success |-> success,
                        current_preferences |-> current_preferences,
                        preferences |-> updated_preferences]>>
  /\ ops' = ops + 1
  /\ UNCHANGED <<inventory, now, tz, scan, scans, upd, cook, recipes,
                 expiration_settings, summary, generation>>

InitPreferences ==
  /\ NoRequest
  /\ NoReads
  /\ inventory = <<>>
  /\ tz = 0
  /\ scans = 0
  /\ ops = 0

NextPreferences ==
  \/ get_preferences
  \/ update_preferences

SpecPreferences == InitPreferences /\ [][NextPreferences]_vars

-----------------------------------------------------------------------------
\* Expiration endpoints: src/app/api/expiration.py

\* line 30
warning_threshold == 3

\* datetime.date() and date.today(), in days
DateOf(d) == d.t \div 24
date_today == (now + tz) \div 24

\* faulty variant: the last warning day counts as fresh
ExpirationStatusStrict(days_until_expiration) ==
  IF days_until_expiration < 0 THEN "expired"
  ELSE IF days_until_expiration < warning_threshold THEN "expiring_soon"
  ELSE "fresh"

\* lines 43-51
ExpirationStatus(days_until_expiration) ==
  IF days_until_expiration < 0 THEN "expired"
  ELSE IF days_until_expiration <= warning_threshold THEN "expiring_soon"
  ELSE "fresh"

\* lines 33-51: what the loop decides for one ingredient
ClassifyIngredient(ingredient, today) ==
  IF ~ingredient.doc.expiration_date.has
    THEN [ingredient_id |-> ingredient.id, has_date |-> FALSE,
          days_until_expiration |-> 0, status |-> "unknown"]
    ELSE LET days_until_expiration == DateOf(ingredient.doc.expiration_date) - today
         IN  [ingredient_id |-> ingredient.id, has_date |-> TRUE,
              days_until_expiration |-> days_until_expiration,
              status |-> ExpirationStatus(days_until_expiration)]

\* faulty variant: an alert also goes before the alerts whose key equals its own
AlertBeforeOrEqual(x, y) ==
  LET kx == IF x.status # "expired" THEN 1 ELSE 0
      ky == IF y.status # "expired" THEN 1 ELSE 0
  IN  kx < ky \/ (kx = ky /\ x.days_until_expiration <= y.days_until_expiration)

\* line 68: the sort key (x.status != EXPIRED, x.days_until_expiration)
AlertBefore(x, y) ==
  LET kx == IF x.status # "expired" THEN 1 ELSE 0
      ky == IF y.status # "expired" THEN 1 ELSE 0
  IN  kx < ky \/ (kx = ky /\ x.days_until_expiration < y.days_until_expiration)

RECURSIVE SortAlerts(_)
\* list.sort: stable, so equal keys keep the order of the collection
SortAlerts(alerts) ==
  IF alerts = <<>> THEN <<>>
  ELSE LET sorted == SortAlerts(SubSeq(alerts, 1, Len(alerts) - 1))
           x == alerts[Len(alerts)]
           later == {i \in 1..Len(sorted) : AlertBefore(x, sorted[i])}
           at == IF later = {} THEN Len(sorted) + 1
                 ELSE CHOOSE i \in later : \A j \in later : i <= j
       IN  SubSeq(sorted, 1, at - 1) \o <<x>> \o SubSeq(sorted, at, Len(sorted))

\* faulty variant: only expired items raise an alert
AlertStatusesExpiredOnly == {"expired"}

\* line 54: the statuses an alert is created for
AlertStatuses == {"expired", "expiring_soon"}

CountStatus(classified, status) ==
  Cardinality({i \in 1..Len(classified) : classified[i].status = status})

\* ExpirationSettings() and the bodies PUT /expiration/settings is called with
DefaultExpirationSettings ==
  [warning_days |-> 3, enable_notifications |-> TRUE, auto_suggest_recipes |-> TRUE]
ExpirationSettingsPool ==
  {[DefaultExpirationSettings EXCEPT !.warning_days = w] : w \in {1, 5}}
    \cup {[DefaultExpirationSettings EXCEPT !.enable_notifications = FALSE]}

\* the warning days in force: the stored ones, the default before any were stored
ConfiguredWarningDays ==
  IF expiration_settings = <<>> THEN DefaultExpirationSettings.warning_days
  ELSE expiration_settings[1].warning_days

\* GET /expiration/summary; `classified` and `configured` record the loop's
\* decision for every ingredient and the warning days in force at the call
get_expiration_summary ==
  /\ \E ok \in BOOLEAN :
       LET ingredients == get_collection(inventory, ok)
           classified == [i \in 1..Len(ingredients) |->
                            ClassifyIngredient(ingredients[i], date_today)]
           alerts == SelectSeq(classified,
                               LAMBDA c : c.status \in AlertStatuses)
       IN  summary' = <<[total_ingredients |-> Len(ingredients),
                         fresh_count |-> CountStatus(classified, "fresh"),
                         expiring_soon_count |-> CountStatus(classified, "expiring_soon"),
                         expired_count |-> CountStatus(classified, "expired"),
                         unknown_count |-> CountStatus(classified, "unknown"),
                         alerts |-> SortAlerts(alerts),
                         classified |-> classified,
                         configured |-> ConfiguredWarningDays]>>
  /\ UNCHANGED <<inventory, now, tz, scan, scans, upd, cook, recipes, ops, generation, users,
                 expiration_settings, arg, ret>>

\* GET /expiration/settings: a missing document is created with the defaults
get_expiration_settings ==
  /\ expiration_settings = <<>>
  /\ \E ok \in BOOLEAN :
       expiration_settings' = IF ok THEN <<DefaultExpirationSettings>> ELSE <<>>
  /\ UNCHANGED <<inventory, now, tz, scan, scans, upd, cook, recipes, ops, generation, users,
                 summary, arg, ret>>

\* PUT /expiration/settings: update_document on "default", which fails (and the
\* request with it) while the document does not exist
update_expiration_settings ==
  /\ \E settings \in ExpirationSettingsPool, ok \in BOOLEAN :
       expiration_settings' =
         IF ok /\ expiration_settings # <<>> THEN <<settings>> ELSE expiration_settings
  /\ UNCHANGED <<inventory, now, tz, scan, scans, upd, cook, recipes, ops, generation, users,
                 summary, arg, ret>>

\* entries with their expiration a given number of days from day 0
ExpiringDoc(d) == [StoredAvocado EXCEPT !.expiration_date = d]
ExpirationDates ==
  {NoDate, Aware(24 * 3 + 1)} \cup {Naive(24 * d + 12) : d \in {0 - 1, 0, 3, 4}}
ExpiringInventories ==
  UNION {[1..n -> {ExpiringDoc(d) : d \in ExpirationDates}] : n \in 0..MaxIds}

InitExpiration ==
  /\ NoRequest
  /\ NoReads
  /\ inventory \in ExpiringInventories
  /\ tz \in TzOffsets
  /\ scans = 0
  /\ ops = 0

NextExpiration ==
  \/ get_expiration_summary
  \/ get_expiration_settings
  \/ update_expiration_settings

SpecExpiration == InitExpiration /\ [][NextExpiration]_vars

-----------------------------------------------------------------------------
\* Properties

\* the items of a request whose store write succeeded, in the order processed
Succeeded(e) == e.outcome \in {"updated", "created"}
Written(r) == SelectSeq(scan[r].log, Succeeded)

\* the item a request has just finished, while no later store call was made
JustProcessed(r) == scan[r].log # <<>>
LastEntry(r) == scan[r].log[Len(scan[r].log)]

\* the quantity and unit a merge is to persist, from the entry as it was read
ExpectedQuantity(e) ==
  IF Lower(e.existing[1].doc.unit) = Lower(e.parsed.unit)
    THEN e.existing[1].doc.quantity + e.parsed.amount
    ELSE e.parsed.amount

\* C1: every recognized item whose name equals a stored entry's name, exactly or
\* after lower-casing both, results in one update_document call on that entry's
\* id and in no create_document call (stated here for the items whose lookup
\* read the store without failure and returned that entry).
C1_MatchedItemIsMerged ==
  \A r \in Reqs : \A j \in 1..Len(scan[r].log) :
    LET e == scan[r].log[j]
    IN  e.truth # <<>> /\ e.existing = e.truth =>
          e.op = "update" /\ e.id = e.truth[1].id

\* C2 as stated: a merge persists (existing quantity + parsed amount, the
\* existing unit) when the units are equal ignoring case, and otherwise
\* (parsed amount, parsed unit).
C2_MergeKeepsExistingUnit ==
  \A r \in Reqs :
    JustProcessed(r) /\ LastEntry(r).outcome = "updated" =>
      LET e == LastEntry(r)
          doc == inventory[e.id]
          old == e.existing[1].doc
      IN  /\ doc.quantity = ExpectedQuantity(e)
          /\ doc.unit = IF Lower(old.unit) = Lower(e.parsed.unit) THEN old.unit
                        ELSE e.parsed.unit

\* What the merge does persist: (existing quantity + parsed amount) when the
\* units are equal ignoring case and the parsed amount otherwise, and in both
\* cases the parsed unit, which is the existing unit up to letter case only in
\* the first case.
C2_MergeQuantityUnit ==
  \A r \in Reqs :
    JustProcessed(r) /\ LastEntry(r).outcome = "updated" =>
      LET e == LastEntry(r)
          doc == inventory[e.id]
      IN  /\ doc.quantity = ExpectedQuantity(e)
          /\ doc.unit = e.parsed.unit
          /\ Lower(e.existing[1].doc.unit) = Lower(e.parsed.unit)
               => Lower(doc.unit) = Lower(e.existing[1].doc.unit)

\* a merge was persisted whose units are equal ignoring case and differ in case
C2_Witness ==
  \E r \in Reqs :
    /\ JustProcessed(r)
    /\ LastEntry(r).outcome = "updated"
    /\ Lower(LastEntry(r).existing[1].doc.unit) = Lower(LastEntry(r).parsed.unit)
    /\ LastEntry(r).existing[1].doc.unit # LastEntry(r).parsed.unit
    /\ inventory[LastEntry(r).id].quantity
         = LastEntry(r).existing[1].doc.quantity + LastEntry(r).parsed.amount

\* C3: an item that matches an entry with a known expiration date, in whatever
\* representation it is stored, is merged with the earlier of the two dates.
C3_MergeTakesEarlierExpiration ==
  \A r \in Reqs : \A j \in 1..Len(scan[r].log) :
    LET e == scan[r].log[j]
    IN  e.existing # <<>> /\ e.existing[1].doc.expiration_date.has =>
          /\ e.op = "update"
          /\ e.data.expiration_date.t
               = IF e.parsed.expiration.t <= e.existing[1].doc.expiration_date.t
                   THEN e.parsed.expiration.t
                   ELSE e.existing[1].doc.expiration_date.t

\* C4: when the response is returned every recognized item has been processed,
\* whatever failed before it, and the response lists exactly the items whose
\* store write succeeded, in recognizer order.
C4_BatchFailureIsolated ==
  \A r \in Reqs :
    scan[r].pc = "done" =>
      /\ Len(scan[r].log) = Len(scan[r].recognized)
      /\ \A j \in 1..Len(scan[r].log) : scan[r].log[j].k = j
      /\ Len(scan[r].scanned) = Len(Written(r))
      /\ \A i \in 1..Len(scan[r].scanned) :
           scan[r].scanned[i].name = scan[r].recognized[Written(r)[i].k].name

\* a response that follows a failed first item and a written second item
C4_Witness ==
  \E r \in Reqs :
    /\ scan[r].pc = "done"
    /\ Len(scan[r].log) = 2
    /\ ~Succeeded(scan[r].log[1])
    /\ Succeeded(scan[r].log[2])
    /\ Len(scan[r].scanned) = 1

\* C5: each returned record carries the amount, unit and expiration of its
\* item's store write, which are the values the entry holds after that write.
C5_ResponseCarriesWrittenValues ==
  \A r \in Reqs :
    /\ Len(scan[r].scanned) = Len(Written(r))
    /\ \A i \in 1..Len(Written(r)) :
         /\ scan[r].scanned[i].amount = Written(r)[i].data.quantity
         /\ scan[r].scanned[i].unit = Written(r)[i].data.unit
         /\ scan[r].scanned[i].estimatedExpiration = Written(r)[i].data.expiration_date.t
    /\ JustProcessed(r) /\ Succeeded(LastEntry(r)) =>
         LET rec == scan[r].scanned[Len(scan[r].scanned)]
             doc == inventory[LastEntry(r).id]
         IN  /\ rec.amount = doc.quantity
             /\ rec.unit = doc.unit
             /\ rec.estimatedExpiration = doc.expiration_date.t

\* a returned record of a merge whose total differs from the scanned amount and
\* whose expiration is the entry's earlier one
C5_Witness ==
  \E r \in Reqs :
    /\ scan[r].pc = "done"
    /\ JustProcessed(r)
    /\ LastEntry(r).outcome = "updated"
    /\ scan[r].scanned[Len(scan[r].scanned)].amount # LastEntry(r).parsed.amount
    /\ scan[r].scanned[Len(scan[r].scanned)].estimatedExpiration
         # LastEntry(r).parsed.expiration.t

\* C6: a merge stores the quantity it read plus its own amount, so when two
\* requests have merged one item each into the same entry from the same read
\* quantity, the entry holds that quantity plus the amount of one of them only.
SingleMerge(r, id, q) ==
  /\ Len(scan[r].log) = 1
  /\ scan[r].log[1].outcome = "updated"
  /\ scan[r].log[1].id = id
  /\ scan[r].log[1].existing[1].doc.quantity = q
  /\ Lower(scan[r].log[1].existing[1].doc.unit) = Lower(scan[r].log[1].parsed.unit)

C6_LastWriteWins ==
  \A id \in DOMAIN inventory : \A q \in {scan[1].log[j].existing[1].doc.quantity :
                                          j \in {k \in 1..Len(scan[1].log) :
                                                   scan[1].log[k].existing # <<>>}} :
    SingleMerge(1, id, q) /\ SingleMerge(2, id, q) =>
      \E r \in Reqs : inventory[id].quantity = q + scan[r].log[1].parsed.amount

\* both requests merged a positive amount into the same entry from the same read,
\* and the entry holds the read quantity plus one amount
C6_LostUpdate ==
  \E id \in DOMAIN inventory :
    /\ scan[1].log # <<>> /\ scan[1].log[1].existing # <<>>
    /\ LET q == scan[1].log[1].existing[1].doc.quantity
       IN  /\ SingleMerge(1, id, q)
           /\ SingleMerge(2, id, q)
           /\ scan[1].log[1].parsed.amount > 0
           /\ scan[2].log[1].parsed.amount > 0
           /\ inventory[id].quantity = q + scan[2].log[1].parsed.amount
           /\ inventory[id].quantity
                < q + scan[1].log[1].parsed.amount + scan[2].log[1].parsed.amount

\* C7: every stored quantity is >= 0.
C7_QuantityNonNegative ==
  \A i \in DOMAIN inventory : inventory[i].quantity >= 0

\* C8: every stored entry has updatedAt >= createdAt.
C8_UpdatedNotBeforeCreated ==
  \A i \in DOMAIN inventory : inventory[i].updated_at.t >= inventory[i].created_at.t

\* the step in which request r completes the write of its current item
WriteStep(r) == scan[r].pc = "write" /\ scan'[r] # scan[r]

\* C9: a merge changes only quantity, unit, expiration date, updatedAt and notes
\* of the matched entry; its name, category, purchase date, location, createdAt
\* and image, every other entry, and the set of ids stay as they were.
C9_MergeFrame ==
  [][\A r \in Reqs :
       WriteStep(r) /\ scan[r].existing # <<>> =>
         /\ DOMAIN inventory' = DOMAIN inventory
         /\ \A i \in DOMAIN inventory :
              IF i = scan[r].existing[1].id
                THEN \A f \in {"name", "category", "purchase_date", "location",
                               "created_at", "image_url"} :
                       inventory'[i][f] = inventory[i][f]
                ELSE inventory'[i] = inventory[i]]_vars

\* a merge was persisted into an entry beside another entry, and the entry keeps
\* a name whose casing is not the recognized one
C9_Witness ==
  \E r \in Reqs :
    /\ JustProcessed(r)
    /\ LastEntry(r).outcome = "updated"
    /\ Cardinality(DOMAIN inventory) >= 2
    /\ inventory[LastEntry(r).id].name # scan[r].recognized[LastEntry(r).k].name
    /\ inventory[LastEntry(r).id].quantity # LastEntry(r).existing[1].doc.quantity

\* C10: an item that matches no entry leads to one create_document call and no
\* update, on an unused id, with the parsed amount, unit, expiration and
\* category, location "fridge", notes carrying the confidence, and
\* createdAt = updatedAt; when the store accepts the call the inventory gains
\* exactly that entry.
C10_UnmatchedItemIsCreated ==
  [][\A r \in Reqs :
       WriteStep(r) /\ scan[r].truth = <<>> =>
         LET e == scan'[r].log[Len(scan'[r].log)]
             item == scan[r].recognized[scan[r].idx]
             p == ParsedPool[item]
         IN  /\ e.op = "create"
             /\ e.id \notin DOMAIN inventory
             /\ e.data.name = item.name
             /\ e.data.quantity = p.amount
             /\ e.data.unit = p.unit
             /\ e.data.expiration_date = Naive(scan[r].current_date.t + 24 * p.days)
             /\ e.data.category = p.category
             /\ e.data.location = "fridge"
             /\ e.data.notes.kind = "scanned"
             /\ e.data.notes.confidence = item.confidence
             /\ e.data.created_at = e.data.updated_at
             /\ IF e.outcome = "created"
                  THEN /\ DOMAIN inventory' = DOMAIN inventory \cup {e.id}
                       /\ inventory'[e.id] = e.data
                       /\ \A i \in DOMAIN inventory : inventory'[i] = inventory[i]
                  ELSE inventory' = inventory]_vars

\* an entry was created by a scan beside an entry of another name
C10_Witness ==
  \E r \in Reqs :
    /\ JustProcessed(r)
    /\ LastEntry(r).outcome = "created"
    /\ LastEntry(r).truth = <<>>
    /\ Cardinality(DOMAIN inventory) >= 2
    /\ inventory[LastEntry(r).id].location = "fridge"

\* C11: an item whose lookup met a failed store read (the lookup answered
\* something else than the store holds for that name) is skipped: no entry is
\* created or modified for it and it is not returned.
C11_FailedReadSkipsItem ==
  \A r \in Reqs : \A j \in 1..Len(scan[r].log) :
    LET e == scan[r].log[j]
    IN  e.existing # e.truth => ~Succeeded(e)

\* C12: a scan request that has been accepted reaches its response, and at every
\* moment the items attempted so far are the first items of the recognizer's
\* list, each once and in order; at the response they are all of them.
C12_ScanAttemptsAllAndReturns ==
  /\ [](/\ Len(scan[1].log) <= Len(scan[1].recognized)
        /\ \A j \in 1..Len(scan[1].log) : scan[1].log[j].k = j
        /\ scan[1].pc = "done" => Len(scan[1].log) = Len(scan[1].recognized))
  /\ (scan[1].pc \in {"lookup", "write"}) ~> (scan[1].pc = "done")

\* a response to a batch of two items whose first item raised and whose second
\* item met a failed store write
C12_Witness ==
  /\ scan[1].pc = "done"
  /\ Len(scan[1].recognized) = 2
  /\ Len(scan[1].log) = 2
  /\ scan[1].log[1].outcome = "raised"
  /\ scan[1].log[2].outcome \in {"update_failed", "create_failed"}

\* C13: an item whose expiration text contains a never, indefinite or permanent
\* token gets no expiration date: the entry created for it has none and the
\* returned record carries none.
NonPerishableText(s) ==
  \/ Contains(Lower(s), <<"n","e","v","e","r">>)
  \/ Contains(Lower(s), <<"i","n","d","e","f","i","n","i","t","e">>)
  \/ Contains(Lower(s), <<"p","e","r","m","a","n","e","n","t">>)

C13_NeverMeansNoExpiration ==
  \A r \in Reqs : \A j \in 1..Len(scan[r].log) :
    LET e == scan[r].log[j]
    IN  NonPerishableText(scan[r].recognized[e.k].estimatedExpiration) /\ e.op = "create"
          => ~e.data.expiration_date.has

\* the call that has returned
Called(fn) == ret # NoReturn /\ ret[1].fn = fn

\* C14: _parse_expiration_days returns a non-negative integer: the first integer
\* of the text times 1, 7 or 30 for the first of day, week, month (in that
\* priority) the lower-cased text contains, 7, 7 or 30 when the text has no
\* integer, and 7 when it contains none of the three.
ExpirationUnitTable ==
  << [keyword |-> <<"d","a","y">>, factor |-> 1, default |-> 7],
     [keyword |-> <<"w","e","e","k">>, factor |-> 7, default |-> 7],
     [keyword |-> <<"m","o","n","t","h">>, factor |-> 30, default |-> 30] >>

C14_ExpirationDaysRule ==
  Called("_parse_expiration_days") =>
    LET hits == {k \in 1..Len(ExpirationUnitTable) :
                   Contains(Lower(arg), ExpirationUnitTable[k].keyword)}
        days == ret[1].days
    IN  /\ days \in Nat
        /\ hits = {} => days = 7
        /\ hits # {} =>
             LET u == ExpirationUnitTable[CHOOSE k \in hits : \A h \in hits : k <= h]
             IN  IF \E i \in 1..Len(arg) : IsDigit(arg[i])
                   THEN days = u.factor * FindIntegers(arg)[1]
                   ELSE days = u.default

\* "12 weeks 3 days" was parsed: day wins over week and the first integer is taken
C14_Witness ==
  /\ Called("_parse_expiration_days")
  /\ arg = <<"1","2"," ","w","e","e","k","s"," ","3"," ","d","a","y","s">>
  /\ ret[1].days = 12

\* C15: the quantity parser returns an amount >= 0 and a non-empty unit for
\* every text: the first integer-or-decimal token (in tenths), or 1.0 when the
\* text has no digit, and the unit of the first keyword of the ordered table the
\* lower-cased text contains, or "pieces".
QuantityUnitTable ==
  << [keyword |-> <<"p","i","e","c","e">>, unit |-> <<"p","i","e","c","e","s">>], [keyword |-> <<"i","t","e","m">>, unit |-> <<"p","i","e","c","e","s">>],
     [keyword |-> <<"b","o","t","t","l","e">>, unit |-> <<"b","o","t","t","l","e","s">>],
     [keyword |-> <<"c","o","n","t","a","i","n","e","r">>, unit |-> <<"c","o","n","t","a","i","n","e","r","s">>],
     [keyword |-> <<"b","o","x">>, unit |-> <<"c","o","n","t","a","i","n","e","r","s">>], [keyword |-> <<"c","u","p">>, unit |-> <<"c","u","p","s">>],
     [keyword |-> <<"l","b">>, unit |-> <<"l","b","s">>], [keyword |-> <<"p","o","u","n","d">>, unit |-> <<"l","b","s">>],
     [keyword |-> <<"k","g">>, unit |-> <<"k","g">>],
     [keyword |-> <<"c","a","r","t","o","n">>, unit |-> <<"c","a","r","t","o","n","s">>],
     [keyword |-> <<"l","o","a","f">>, unit |-> <<"l","o","a","v","e","s">>],
     [keyword |-> <<"l","o","a","v","e","s">>, unit |-> <<"l","o","a","v","e","s">>],
     [keyword |-> <<"b","l","o","c","k">>, unit |-> <<"b","l","o","c","k","s">>] >>

\* the digits of s from position i on, up to the first non-digit
DigitRun(s, i) ==
  LET stop == {j \in i..Len(s) : ~IsDigit(s[j])}
      e == IF stop = {} THEN Len(s) ELSE (CHOOSE j \in stop : \A h \in stop : j <= h) - 1
  IN  SubSeq(s, i, e)

RECURSIVE Decimal(_)
Decimal(digits) ==
  IF digits = <<>> THEN 0
  ELSE 10 * Decimal(SubSeq(digits, 1, Len(digits) - 1)) + DigitVal[digits[Len(digits)]]

\* the first token of the form digits [. digits] of s, in tenths
FirstAmount(s) ==
  LET i == CHOOSE j \in 1..Len(s) : IsDigit(s[j]) /\ \A h \in 1..(j - 1) : ~IsDigit(s[h])
      whole == DigitRun(s, i)
      after == i + Len(whole)
      frac == IF after <= Len(s) /\ s[after] = "." THEN DigitRun(s, after + 1) ELSE <<>>
  IN  10 * Decimal(whole) + (IF frac = <<>> THEN 0 ELSE DigitVal[frac[1]])

C16_ZeroQuantityIsOne ==
  Called("_parse_quantity") =>
    /\ ret[1].amount > 0
    /\ (\A i \in 1..Len(arg) : arg[i] \in {"0", ".", " "}) => ret[1].amount = 10

\* C17: the classifier returns one category for every name: the first of
\* Spices, Produce, Protein, Dairy, Grains, in that order, one of whose keywords
\* the lower-cased name contains, and Other when no keyword is contained.
CategoryOrder ==
  << [category |-> "spices", items |-> spice_items],
     [category |-> "produce", items |-> produce_items],
     [category |-> "protein", items |-> protein_items],
     [category |-> "dairy", items |-> dairy_items],
     [category |-> "grains", items |-> grain_items] >>

C18_PepperExamples ==
  Called("_guess_ingredient_category") =>
    /\ arg = <<"B","e","l","l"," ","P","e","p","p","e","r">> => ret[1].category = "produce"
    /\ arg = <<"B","l","a","c","k"," ","P","e","p","p","e","r">> => ret[1].category = "spices"
    /\ arg = <<"p","e","p","p","e","r">> => ret[1].category = "spices"

\* the two of the three examples the classifier does satisfy
C18_BellAndBlackPepper ==
  Called("_guess_ingredient_category") =>
    /\ arg = <<"B","e","l","l"," ","P","e","p","p","e","r">> => ret[1].category = "produce"
    /\ arg = <<"B","l","a","c","k"," ","P","e","p","p","e","r">> => ret[1].category = "spices"

\* C19: the summary puts every inventory item in exactly one of unknown (no
\* date), expired (daysUntil < 0), expiring_soon (0 <= daysUntil <= 3) and fresh
\* (daysUntil > 3), and its four counts are the sizes of these classes.
C19_SummaryClassifiesWithThreshold3 ==
  summary # <<>> =>
    LET s == summary[1]
    IN  /\ Len(s.classified) = s.total_ingredients
        /\ \A i \in 1..Len(s.classified) :
             LET c == s.classified[i]
             IN  /\ c.status = "unknown" <=> ~c.has_date
                 /\ c.status = "expired" <=> c.has_date /\ c.days_until_expiration < 0
                 /\ c.status = "expiring_soon" <=>
                      c.has_date /\ c.days_until_expiration \in 0..3
                 /\ c.status = "fresh" <=> c.has_date /\ c.days_until_expiration > 3
        /\ s.unknown_count + s.expired_count + s.expiring_soon_count + s.fresh_count
             = s.total_ingredients
        /\ s.expired_count = CountStatus(s.classified, "expired")
        /\ s.expiring_soon_count = CountStatus(s.classified, "expiring_soon")
        /\ s.fresh_count = CountStatus(s.classified, "fresh")
        /\ s.unknown_count = CountStatus(s.classified, "unknown")

\* a summary over items 3 days and 4 days from expiring and one without a date:
\* one expiring soon, one fresh, one unknown
C19_Witness ==
  /\ summary # <<>>
  /\ \E i, j \in 1..Len(summary[1].classified) :
       /\ summary[1].classified[i].has_date
       /\ summary[1].classified[i].days_until_expiration = 3
       /\ summary[1].classified[i].status = "expiring_soon"
       /\ summary[1].classified[j].has_date
       /\ summary[1].classified[j].days_until_expiration = 4
       /\ summary[1].classified[j].status = "fresh"
  /\ summary[1].unknown_count = 1

\* C20: the summary classifies with the warning days in force: an item with
\* 0 <= daysUntil <= w is expiring_soon and one with daysUntil > w is fresh,
\* where w is the stored warning_days, and 3 when none was stored.
C20_SummaryUsesConfiguredWarningDays ==
  summary # <<>> =>
    \A i \in 1..Len(summary[1].classified) :
      LET c == summary[1].classified[i]
          w == summary[1].configured
      IN  c.has_date =>
            /\ c.days_until_expiration \in 0..w => c.status = "expiring_soon"
            /\ c.days_until_expiration > w => c.status = "fresh"

\* the place of an alert's ingredient in the collection the summary read
PlaceOf(s, alert) ==
  CHOOSE i \in 1..Len(s.classified) :
    s.classified[i].ingredient_id = alert.ingredient_id

\* C21: in the summary's alert list every expired alert precedes every
\* expiring_soon alert, within each group the days until expiration ascend, and
\* alerts with the same status and days stand in the order of the inventory.
C21_AlertsOrderedByUrgency ==
  summary # <<>> =>
    LET s == summary[1]
    IN  \A i, j \in 1..Len(s.alerts) :
          i < j =>
            LET x == s.alerts[i]
                y == s.alerts[j]
            IN  /\ ~(x.status = "expiring_soon" /\ y.status = "expired")
                /\ x.status = y.status =>
                     x.days_until_expiration <= y.days_until_expiration
                /\ (x.status = y.status
                      /\ x.days_until_expiration = y.days_until_expiration) =>
                     PlaceOf(s, x) < PlaceOf(s, y)

\* a summary whose sort moved an expired item from the end of the inventory to
\* the front of two alerts of equal key
C21_Witness ==
  /\ summary # <<>>
  /\ Len(summary[1].alerts) = 3
  /\ summary[1].alerts[1].status = "expired"
  /\ PlaceOf(summary[1], summary[1].alerts[1]) = 3
  /\ summary[1].alerts[2].status = "expiring_soon"
  /\ summary[1].alerts[2].days_until_expiration
       = summary[1].alerts[3].days_until_expiration

\* C22: the summary has an alert for an item exactly when the item is expired or
\* expiring soon, one alert each, so the alerts number expired_count +
\* expiring_soon_count, and the four counts add up to total_ingredients.
C22_AlertsExactlyForExpiredAndExpiring ==
  summary # <<>> =>
    LET s == summary[1]
    IN  /\ \A i \in 1..Len(s.classified) :
             LET c == s.classified[i]
                 mine == {k \in 1..Len(s.alerts) :
                            s.alerts[k].ingredient_id = c.ingredient_id}
             IN  /\ c.status \in {"expired", "expiring_soon"} <=> mine # {}
                 /\ Cardinality(mine) <= 1
                 /\ \A k \in mine : s.alerts[k] = c
        /\ \A k \in 1..Len(s.alerts) :
             \E i \in 1..Len(s.classified) : s.classified[i] = s.alerts[k]
        /\ Len(s.alerts) = s.expired_count + s.expiring_soon_count
        /\ s.fresh_count + s.expiring_soon_count + s.expired_count + s.unknown_count
             = s.total_ingredients

\* a summary over one fresh, one expired and one undated item: a single alert
C22_Witness ==
  /\ summary # <<>>
  /\ summary[1].total_ingredients = 3
  /\ summary[1].fresh_count = 1
  /\ summary[1].unknown_count = 1
  /\ summary[1].expired_count = 1
  /\ Len(summary[1].alerts) = 1

\* the recipe ingredients of a call that some available name contains or is
\* contained in, whatever the case of the letters
MatchedIngredients(call) ==
  {i \in 1..Len(call.recipe_ingredients) :
     \E k \in 1..Len(call.available_ingredients) :
       LET n == Lower(NameOrEmpty(call.recipe_ingredients[i]))
           a == Lower(call.available_ingredients[k])
       IN  Contains(a, n) \/ Contains(n, a)}

\* C23: calculate_match_score returns matchedCount / totalRecipeIngredients, a
\* value in [0,1]: 0.0 for an empty recipe ingredient list and 1.0 when every
\* recipe ingredient is matched.
C23_MatchScoreIsMatchedFraction ==
  Called("calculate_match_score") =>
    LET score == ret[1].score
        total == Len(arg.recipe_ingredients)
        matched == Cardinality(MatchedIngredients(arg))
    IN  /\ score.den > 0
        /\ 0 <= score.num /\ score.num <= score.den
        /\ total = 0 => score.num = 0
        /\ total > 0 => score.num * total = matched * score.den
        /\ (total > 0 /\ matched = total) => score.num = score.den

\* a recipe of "eggs" and "Milk" against an inventory holding only "Egg": the
\* first is matched because the available name is contained in it, score 1/2
C23_Witness ==
  /\ Called("calculate_match_score")
  /\ arg.recipe_ingredients = <<[name |-> << <<"e","g","g","s">> >>],
                                [name |-> << <<"M","i","l","k">> >>]>>
  /\ arg.available_ingredients = << <<"E","g","g">> >>
  /\ ret[1].score = Quotient(1, 2)

\* a step of POST /recipes/cooked that accepted the request, and one that
\* handled a recipe ingredient
CookAccepted == cook.pc = "idle" /\ cook'.pc # "idle"
CookHandledItem == cook.pc = "item" /\ cook'.idx = cook.idx + 1

\* the inventory entries named like the recipe ingredient being handled
CookMatches ==
  {id \in DOMAIN inventory :
     Lower(inventory[id].name) = Lower(cook.ingredients[cook.idx].name)}

\* the entry of the response for the recipe ingredient just handled, if any
CookReported ==
  IF Len(cook'.updated_ingredients) > Len(cook.updated_ingredients)
    THEN <<cook'.updated_ingredients[Len(cook'.updated_ingredients)]>>
    ELSE <<>>

\* what the depletion of one recipe ingredient does apart from the direction of
\* the change: it deletes nothing, leaves the entries of other names alone, and
\* sets the entry it reports to max(0, current - required), or changes nothing
CookItemDepletes ==
  LET required == parse_quantity(cook.ingredients[cook.idx].amount)
  IN  /\ DOMAIN inventory' = DOMAIN inventory
      /\ \A id \in DOMAIN inventory \ CookMatches : inventory'[id] = inventory[id]
      /\ CookReported = <<>> => inventory' = inventory
      /\ CookReported # <<>> =>
           LET id == CookReported[1].id
               current == inventory[id].quantity
           IN  /\ id \in CookMatches
               /\ inventory'[id].quantity =
                    (IF current - required > 0 THEN current - required ELSE 0)
               /\ \A other \in DOMAIN inventory \ {id} :
                    inventory'[other] = inventory[other]

\* C24: marking a recipe cooked adds exactly 1 to its cookedCount, and each
\* recipe ingredient with an inventory entry of the same name (whatever the case)
\* sets that entry's quantity to max(0, current - required); no entry is deleted,
\* no quantity increases, and entries of other names are unchanged.
C24_CookedDepletesInventory ==
  [][ /\ CookAccepted =>
           recipes' = [recipes EXCEPT ![cook'.recipeId].cookedCount = @ + 1]
      /\ CookHandledItem =>
           /\ CookItemDepletes
           /\ \A id \in DOMAIN inventory :
                inventory'[id].quantity <= inventory[id].quantity ]_vars

\* C24 without the direction of the change: what marking a recipe cooked keeps
\* of the claim whatever the stored quantities are; a quantity that was not
\* negative does not increase.
C24_CookedDepletionFrame ==
  [][ /\ CookAccepted =>
           recipes' = [recipes EXCEPT ![cook'.recipeId].cookedCount = @ + 1]
      /\ CookHandledItem =>
           /\ CookItemDepletes
           /\ \A id \in DOMAIN inventory :
                inventory[id].quantity >= 0 =>
                  inventory'[id].quantity <= inventory[id].quantity ]_vars

\* the iterations of the generate request being served, oldest first
GenerationLog == generation.log

UnsuitableImage(image) ==
  \/ image.kind \in {"empty", "not_base64", "not_image"}
  \/ image.kind = "image"
       /\ (image.width < 100 \/ image.height < 100 \/ image.bytes > 10 * 1024 * 1024)

StoredPreferences(u) == IF u = <<>> THEN DEFAULT_PREFERENCES ELSE u[1].preferences

\* a POST /preferences was answered with success
PreferencesUpdated == ops' = ops + 1 /\ ret'[1].fn = "update_preferences" /\ ret'[1].success

\* C27: update_preferences is a partial update: an update leaves each of the
\* five fields at the value the update supplied, or, if it supplied none, at the
\* value the field had (the default before any update); fields outside the five
\* are ignored. (Holding at every update, this gives every field the value of
\* the most recent update that supplied it.)
C27_PreferencesPartialUpdate ==
  [][PreferencesUpdated =>
       /\ DOMAIN StoredPreferences(users') = valid_fields
       /\ \A f \in valid_fields :
            StoredPreferences(users')[f] =
              IF f \in DOMAIN arg' THEN arg'[f] ELSE StoredPreferences(users)[f]
       /\ ret'[1].preferences = StoredPreferences(users')]_vars

\* C27 over what the handler read: an update leaves each field at the value it
\* supplied, and a field it did not supply at the value of current_preferences,
\* which is the stored value when the read of the user document answered and
\* the default when it failed.
C27_PartialUpdateOfCurrentPreferences ==
  [][PreferencesUpdated =>
       /\ DOMAIN StoredPreferences(users') = valid_fields
       /\ \A f \in valid_fields :
            StoredPreferences(users')[f] =
              IF f \in DOMAIN arg' THEN arg'[f] ELSE ret'[1].current_preferences[f]
       /\ ret'[1].current_preferences \in {StoredPreferences(users), DEFAULT_PREFERENCES}
       /\ ret'[1].preferences = StoredPreferences(users')]_vars

\* no two entries have names that are equal when the case is ignored
NoDuplicateNames(coll) ==
  \A i, j \in DOMAIN coll : i # j => Lower(coll[i].name) # Lower(coll[j].name)

\* C28: scan requests served one after the other, with the store reads
\* answering, keep the inventory free of entries whose names are equal
\* case-insensitively: a step of a scan that starts without such entries ends
\* without them, and an item is created only when no entry has its name, so a
\* second occurrence of a name in a batch merges into the entry of the first.
C28_SequentialScansKeepNamesUnique ==
  [][(NoDuplicateNames(inventory) /\ scan[1].existing = scan[1].truth) =>
       /\ NoDuplicateNames(inventory')
       /\ DOMAIN inventory' # DOMAIN inventory =>
            \A id \in DOMAIN inventory :
              Lower(inventory[id].name)
                # Lower(scan[1].recognized[scan[1].idx].name)]_vars

\* a batch naming "Avocado" and then "avocado" against the empty inventory: the
\* first is created, the second is merged into it, one entry remains
C28_Witness ==
  /\ Len(scan[1].log) = 2
  /\ scan[1].log[1].outcome = "created"
  /\ scan[1].log[1].truth = <<>>
  /\ scan[1].log[2].outcome = "updated"
  /\ scan[1].log[2].id = scan[1].log[1].id
  /\ scan[1].recognized[1].name # scan[1].recognized[2].name
  /\ Cardinality(DOMAIN inventory) = 1

\* every lookup the request has made so far answered what the store held
LookupsAnswered(r) ==
  /\ scan[r].existing = scan[r].truth
  /\ \A k \in 1..Len(scan[r].log) : scan[r].log[k].existing = scan[r].log[k].truth

\* C29: two scan requests running concurrently, the first two the server
\* accepted, whose lookups all answered what the store held, leave no two
\* entries with the same name (case ignored) in the inventory, however their
\* lookups and creates interleave.
C29_ConcurrentScansSingleEntry ==
  (scans = 2 /\ \A r \in Reqs : scan[r].pc # "idle" /\ LookupsAnswered(r)) =>
    NoDuplicateNames(inventory)

\* a step of POST /ingredients/update that handled one submitted ingredient
UpdateHandledItem == upd.pc = "item" /\ upd'.idx = upd.idx + 1

\* the entries whose name is exactly the name of the submitted ingredient
UpdateExactMatches ==
  {id \in DOMAIN inventory : inventory[id].name = upd.ingredients[upd.idx].name}

\* the store calls of the step succeeded: its write was reported, and it was an
\* update of a matching entry when there was one
UpdateStored ==
  /\ Len(upd'.updated_ingredient_ids) = Len(upd.updated_ingredient_ids) + 1
  /\ UpdateExactMatches # {} =>
       upd'.updated_ingredient_ids[Len(upd'.updated_ingredient_ids)] \in UpdateExactMatches

\* what C30 says of one submitted ingredient whose store calls succeeded
UpdateAddsQuantity ==
  LET ingredient_create == upd.ingredients[upd.idx]
      id == upd'.updated_ingredient_ids[Len(upd'.updated_ingredient_ids)]
  IN  IF UpdateExactMatches # {}
        THEN /\ DOMAIN inventory' = DOMAIN inventory
             /\ inventory'[id].quantity = inventory[id].quantity + ingredient_create.quantity
        ELSE /\ DOMAIN inventory' = DOMAIN inventory \cup {id}
             /\ id \notin DOMAIN inventory
             /\ inventory'[id].name = ingredient_create.name
             /\ inventory'[id].quantity = ingredient_create.quantity

\* C30: in POST /ingredients/update a submitted ingredient whose name exactly
\* equals an entry's name creates no entry and leaves the stored quantity at
\* the previous quantity plus the submitted one, for every submitted quantity,
\* 0 included; a submitted ingredient with no exact match creates exactly one
\* entry.
C30_ManualUpdateAddsQuantity ==
  [][(UpdateHandledItem /\ UpdateStored) => UpdateAddsQuantity]_vars

\* C30 for the submitted quantities other than 0
C30_ManualUpdateAddsNonZeroQuantity ==
  [][(UpdateHandledItem /\ UpdateStored /\ upd.ingredients[upd.idx].quantity # 0) =>
       UpdateAddsQuantity]_vars

====
